---------------------------- MODULE Spec2Model ----------------------------
(***************************************************************************)
(* safe-rename: the per-file-type rewrite strategies, the file classifier, *)
(* the concurrency-bounded driver (runSafeRename / processFile), the       *)
(* configuration merge and the command-line entry.                         *)
(*                                                                         *)
(* Text is a sequence of one-character strings.  A JSON or YAML document   *)
(* that parses is the pair of its layout and the value it parses to; a     *)
(* document that does not parse is plain text.                             *)
(***************************************************************************)
EXTENDS Integers, Sequences, FiniteSets, TLC

(***************************************************************************)
(* Characters                                                              *)
(***************************************************************************)
LowerLetters ==
    << "a","b","c","d","e","f","g","h","i","j","k","l","m",
       "n","o","p","q","r","s","t","u","v","w","x","y","z" >>

UpperLetters ==
    << "A","B","C","D","E","F","G","H","I","J","K","L","M",
       "N","O","P","Q","R","S","T","U","V","W","X","Y","Z" >>

Digits == {"0","1","2","3","4","5","6","7","8","9"}

Range(f) == { f[i] : i \in DOMAIN f }

LowerSet == Range(LowerLetters)

UpperSet == Range(UpperLetters)

\* String.prototype.toUpperCase on one character
UpperCh(c) ==
    IF c \in LowerSet
    THEN UpperLetters[CHOOSE i \in DOMAIN LowerLetters : LowerLetters[i] = c]
    ELSE c

\* the canonical form the "i" flag compares characters in
LowerCh(c) ==
    IF c \in UpperSet
    THEN LowerLetters[CHOOSE i \in DOMAIN UpperLetters : UpperLetters[i] = c]
    ELSE c

\* String.prototype.toUpperCase
ToUpperCase(s) == [i \in 1..Len(s) |-> UpperCh(s[i])]

\* \w of a regular expression
IsWordCh(c) == c \in LowerSet \cup UpperSet \cup Digits \cup {"_"}

\* \s of a regular expression
SpaceChars == {" ", "\n", "\t"}

\* the backtick character (a string cannot hold it)
Backtick == "BT"

\* the characters a quoted module path ends at: ['"]
QuoteChars == {"'", "\""}

\* two characters are the same under the flags: "g" exact, "gi" up to case
SameCh(a, b, ci) == IF ci THEN LowerCh(a) = LowerCh(b) ELSE a = b

\* String.prototype.includes: t occurs in s, character for character
RECURSIVE IncludesFrom(_, _, _)
IncludesFrom(s, t, i) ==
    IF i + Len(t) - 1 > Len(s) THEN FALSE
    ELSE IF SubSeq(s, i, i + Len(t) - 1) = t THEN TRUE
    ELSE IncludesFrom(s, t, i + 1)

Includes(s, t) == IncludesFrom(s, t, 1)

\* s ends with t
EndsWith(s, t) ==
    /\ Len(t) <= Len(s)
    /\ SubSeq(s, Len(s) - Len(t) + 1, Len(s)) = t

\* s starts with t
StartsWith(s, t) ==
    /\ Len(t) <= Len(s)
    /\ SubSeq(s, 1, Len(t)) = t


(***************************************************************************)
(* Regular expressions, as the RegExp objects of engine.ts use them.       *)
(* A pattern is a sequence of nodes:                                       *)
(*   lit   a literal run of characters                                     *)
(*   cls   one character of a class (neg: of its complement)               *)
(*   star  a class repeated at least min times, greedy or lazy             *)
(*   alt   alternatives, tried in order                                    *)
(*   open / close  the parentheses of capture group g                      *)
(*   wb    \b                                                              *)
(* Match is the backtracking matcher: the first success in priority order. *)
(***************************************************************************)
Lit(s) == [t |-> "lit", s |-> s]

Cls(set) == [t |-> "cls", set |-> set, neg |-> FALSE]

NotCls(set) == [t |-> "cls", set |-> set, neg |-> TRUE]

\* X* (min 0) and X+ (min 1), greedy
Star(c) == [t |-> "star", r |-> c, min |-> 0, lazy |-> FALSE]

Plus(c) == [t |-> "star", r |-> c, min |-> 1, lazy |-> FALSE]

\* X*?
LazyStar(c) == [t |-> "star", r |-> c, min |-> 0, lazy |-> TRUE]

Alt(alts) == [t |-> "alt", alts |-> alts]

Open(g) == [t |-> "open", g |-> g]

Close(g) == [t |-> "close", g |-> g]

WordBoundary == [t |-> "wb"]

\* "." : any character but a line terminator
Dot == NotCls({"\n"})

\* \s
Space == Cls(SpaceChars)

NoMatch == [ok |-> FALSE]

\* no capture group has matched yet (the patterns have at most two groups)
NoCaps == [g \in 1..2 |-> <<1, 1>>]

InClass(n, c) == IF n.neg THEN c \notin n.set ELSE c \in n.set

LitAt(s, i, t, ci) ==
    /\ i + Len(t) - 1 <= Len(s)
    /\ \A j \in 1..Len(t) : SameCh(s[i + j - 1], t[j], ci)

\* \b holds between position i-1 and i
BoundaryAt(s, i) ==
    LET before == i > 1 /\ i - 1 <= Len(s) /\ IsWordCh(s[i - 1])
        after  == i >= 1 /\ i <= Len(s) /\ IsWordCh(s[i])
    IN  before # after

\* the longest run of characters of class n from position i
RECURSIVE RunLen(_, _, _)
RunLen(n, s, i) ==
    IF i <= Len(s) /\ InClass(n, s[i]) THEN 1 + RunLen(n, s, i + 1) ELSE 0

RECURSIVE Match(_, _, _, _, _)
RECURSIVE TryDown(_, _, _, _, _, _, _)
RECURSIVE TryUp(_, _, _, _, _, _, _)
RECURSIVE TryAlts(_, _, _, _, _, _, _)

\* greedy: the longest repetition first
TryDown(k, s, i, ci, caps, j, min) ==
    IF j < min THEN NoMatch
    ELSE LET r == Match(k, s, i + j, ci, caps)
         IN  IF r.ok THEN r ELSE TryDown(k, s, i, ci, caps, j - 1, min)

\* lazy: the shortest repetition first
TryUp(k, s, i, ci, caps, j, max) ==
    IF j > max THEN NoMatch
    ELSE LET r == Match(k, s, i + j, ci, caps)
         IN  IF r.ok THEN r ELSE TryUp(k, s, i, ci, caps, j + 1, max)

TryAlts(alts, a, k, s, i, ci, caps) ==
    IF a > Len(alts) THEN NoMatch
    ELSE LET r == Match(alts[a] \o k, s, i, ci, caps)
         IN  IF r.ok THEN r ELSE TryAlts(alts, a + 1, k, s, i, ci, caps)

Match(k, s, i, ci, caps) ==
    IF Len(k) = 0 THEN [ok |-> TRUE, end |-> i, caps |-> caps]
    ELSE
      LET n == Head(k)
          rest == Tail(k)
      IN  CASE n.t = "lit" ->
                 IF LitAt(s, i, n.s, ci)
                 THEN Match(rest, s, i + Len(n.s), ci, caps)
                 ELSE NoMatch
            [] n.t = "cls" ->
                 IF i <= Len(s) /\ InClass(n, s[i])
                 THEN Match(rest, s, i + 1, ci, caps)
                 ELSE NoMatch
            [] n.t = "star" ->
                 LET m == RunLen(n.r, s, i)
                 IN  IF m < n.min THEN NoMatch
                     ELSE IF n.lazy
                          THEN TryUp(rest, s, i, ci, caps, n.min, m)
                          ELSE TryDown(rest, s, i, ci, caps, m, n.min)
            [] n.t = "alt" -> TryAlts(n.alts, 1, rest, s, i, ci, caps)
            [] n.t = "open" ->
                 Match(rest, s, i, ci, [caps EXCEPT ![n.g] = <<i, i>>])
            [] n.t = "close" ->
                 Match(rest, s, i, ci, [caps EXCEPT ![n.g] = <<caps[n.g][1], i>>])
            [] n.t = "wb" ->
                 IF BoundaryAt(s, i) THEN Match(rest, s, i, ci, caps) ELSE NoMatch

\* RegExp.prototype.exec from lastIndex: the leftmost start that matches
RECURSIVE FindMatch(_, _, _, _)
FindMatch(re, s, from, ci) ==
    IF from > Len(s) + 1 THEN NoMatch
    ELSE LET r == Match(re, s, from, ci, NoCaps)
         IN  IF r.ok
             THEN [ok |-> TRUE, start |-> from, end |-> r.end, caps |-> r.caps]
             ELSE FindMatch(re, s, from + 1, ci)

\* the text of capture group g of match m
GroupText(s, m, g) == SubSeq(s, m.caps[g][1], m.caps[g][2] - 1)

(***************************************************************************)
(* String.prototype.replace with a global RegExp.  The replacement is a    *)
(* sequence of items:                                                      *)
(*   txt     literal text                                                  *)
(*   cap     $g, the text of capture group g                               *)
(*   capsub  a callback's group.replace(new RegExp(old, flags), new)       *)
(*   allsub  a callback's match.replace(new RegExp(old, flags), new)       *)
(***************************************************************************)
Txt(s) == [t |-> "txt", s |-> s]

Cap(g) == [t |-> "cap", g |-> g]

CapSub(g, old, new) == [t |-> "capsub", g |-> g, old |-> old, new |-> new]

AllSub(old, new) == [t |-> "allsub", old |-> old, new |-> new]

RECURSIVE ReplaceFrom(_, _, _, _, _)
RECURSIVE ReplaceMatch(_, _, _, _, _, _)
RECURSIVE Expand(_, _, _, _, _)

\* the text one match is replaced by
Expand(tpl, j, s, m, ci) ==
    IF j > Len(tpl) THEN <<>>
    ELSE
      LET it == tpl[j]
          piece ==
            CASE it.t = "txt" -> it.s
              [] it.t = "cap" -> GroupText(s, m, it.g)
              [] it.t = "capsub" ->
                   ReplaceFrom(GroupText(s, m, it.g), <<Lit(it.old)>>,
                               ci, <<Txt(it.new)>>, 1)
              [] it.t = "allsub" ->
                   ReplaceFrom(SubSeq(s, m.start, m.end - 1), <<Lit(it.old)>>,
                               ci, <<Txt(it.new)>>, 1)
      IN  piece \o Expand(tpl, j + 1, s, m, ci)

\* the rest of s.replace(re, tpl) from position pos on, where m is the result
\* of the search from pos: a match is replaced and the search goes on behind
\* it (one character further after an empty match)
ReplaceMatch(s, re, ci, tpl, pos, m) ==
    IF ~m.ok THEN SubSeq(s, pos, Len(s))
    ELSE IF m.end = m.start
         THEN SubSeq(s, pos, m.start - 1) \o Expand(tpl, 1, s, m, ci)
              \o (IF m.start <= Len(s) THEN <<s[m.start]>> ELSE <<>>)
              \o ReplaceFrom(s, re, ci, tpl, m.start + 1)
         ELSE SubSeq(s, pos, m.start - 1) \o Expand(tpl, 1, s, m, ci)
              \o ReplaceFrom(s, re, ci, tpl, m.end)

\* s.replace(re, tpl) from position pos on: matches are found left to right
\* in the original text and do not overlap
ReplaceFrom(s, re, ci, tpl, pos) ==
    IF pos > Len(s) THEN <<>>
    ELSE ReplaceMatch(s, re, ci, tpl, pos, FindMatch(re, s, pos, ci))

\* content.replace(new RegExp(<re>, flags), <tpl>); flags is "g" or "gi"
Replace(s, re, ci, tpl) == ReplaceFrom(s, re, ci, tpl, 1)

\* one content.replace(...) statement of a strategy
Rule(re, tpl) == [re |-> re, tpl |-> tpl]

\* the replace statements of a strategy, run one after the other, each on
\* the result of the one before
RECURSIVE ApplyRules(_, _, _, _)
ApplyRules(text, rules, i, ci) ==
    IF i > Len(rules) THEN text
    ELSE ApplyRules(Replace(text, rules[i].re, ci, rules[i].tpl),
                    rules, i + 1, ci)


(***************************************************************************)
(* The rename map and the flags every strategy derives from the options    *)
(***************************************************************************)
\* options.multiMap || { [options.oldName]: options.newName }, as the
\* sequence Object.entries enumerates
RenameMapOf(options) ==
    IF "multiMap" \in DOMAIN options
    THEN options.multiMap
    ELSE << [old |-> options.oldName, new |-> options.newName] >>

\* flags = options.caseSensitive ? "g" : "gi": TRUE when matching ignores case
IgnoreCase(options) ==
    ~("caseSensitive" \in DOMAIN options /\ options.caseSensitive)

\* the pattern a token is spliced into a RegExp source as
TokRe(old) == << Lit(old) >>

\* the number of "(" of a token still open after its last character, or -1
\* when a ")" closes nothing
RECURSIVE ParenDepth(_, _, _)
ParenDepth(tok, i, d) ==
    IF d < 0 THEN -1
    ELSE IF i > Len(tok) THEN d
    ELSE ParenDepth(tok, i + 1,
                    IF tok[i] = "(" THEN d + 1
                    ELSE IF tok[i] = ")" THEN d - 1 ELSE d)

\* new RegExp(... + old + ...) throws a SyntaxError: the token leaves a group
\* of the pattern unterminated or closes one that was never opened
RegExpThrows(old) == ParenDepth(old, 1, 0) # 0

\* the first new RegExp of some pair of the map throws
MapThrows(map) == \E i \in DOMAIN map : RegExpThrows(map[i].old)

\* what a strategy gives back: the text returned, or an exception thrown
Returned(c) == [threw |-> FALSE, content |-> c]

Thrown == [threw |-> TRUE]

\* a file's content as plain text
TextOf(chars) == [kind |-> "text", chars |-> chars]

(***************************************************************************)
(* processTypeScriptFile                                                   *)
(***************************************************************************)
KwImport == <<"i","m","p","o","r","t">>

KwExport == <<"e","x","p","o","r","t">>

KwFrom == <<"f","r","o","m">>

KwRequire == <<"r","e","q","u","i","r","e">>

\* (<kw>\s+.*?\s+from\s+['"][^'"]*)<old>([^'"]*['"])
FromRe(kw, old) ==
    << Open(1), Lit(kw), Plus(Space), LazyStar(Dot), Plus(Space), Lit(KwFrom),
       Plus(Space), Cls(QuoteChars), Star(NotCls(QuoteChars)), Close(1) >>
    \o TokRe(old)
    \o << Open(2), Star(NotCls(QuoteChars)), Cls(QuoteChars), Close(2) >>

\* (require\s*\(\s*['"][^'"]*)<old>([^'"]*['"])
RequireRe(old) ==
    << Open(1), Lit(KwRequire), Star(Space), Lit(<<"(">>), Star(Space),
       Cls(QuoteChars), Star(NotCls(QuoteChars)), Close(1) >>
    \o TokRe(old)
    \o << Open(2), Star(NotCls(QuoteChars)), Cls(QuoteChars), Close(2) >>

\* (@<old>)
ScopedRe(old) == << Open(1), Lit(<<"@">>) >> \o TokRe(old) \o << Close(1) >>

\* \b<old>\b
WordRe(old) == << WordBoundary >> \o TokRe(old) \o << WordBoundary >>

\* `$1${newName}$2`
PathTpl(new) == << Cap(1), Txt(new), Cap(2) >>

\* one iteration of the loop over the rename map
TsPair(old, new) ==
    << Rule(FromRe(KwImport, old), PathTpl(new)),
       Rule(FromRe(KwExport, old), PathTpl(new)),
       Rule(RequireRe(old), PathTpl(new)),
       Rule(ScopedRe(old), << Txt(<<"@">> \o new) >>),
       Rule(WordRe(old), << Txt(new) >>) >>

\* the loop over the rename map, in Object.entries order
RECURSIVE TsLoop(_, _)
TsLoop(map, i) ==
    IF i > Len(map) THEN <<>>
    ELSE TsPair(map[i].old, map[i].new) \o TsLoop(map, i + 1)

\* a strategy that ends the text it returns with a line break
processTypeScriptFileWithEol(content, options) ==
    IF MapThrows(RenameMapOf(options)) THEN Thrown
    ELSE Returned(TextOf(content.chars \o << "\n" >>))

processTypeScriptFile(content, options) ==
    IF MapThrows(RenameMapOf(options)) THEN Thrown
    ELSE Returned(TextOf(ApplyRules(content.chars,
                                    TsLoop(RenameMapOf(options), 1), 1,
                                    IgnoreCase(options))))


(***************************************************************************)
(* processJsonFile and processYamlFile.  A parsed value is a tagged        *)
(* record: str (s), num (n), bool (b), null, arr (items) or obj (entries,  *)
(* the sequence of [k, v] Object.entries enumerates).                      *)
(***************************************************************************)
\* newValue.replace(new RegExp(oldName, flags), newName), pair after pair
RECURSIVE RenameString(_, _, _, _)
RenameString(str, map, i, ci) ==
    IF i > Len(map) THEN str
    ELSE RenameString(Replace(str, TokRe(map[i].old), ci, << Txt(map[i].new) >>),
                      map, i + 1, ci)

\* result[key] = val: an existing key keeps its place and takes the value,
\* a new key is added last
AssignKey(entries, key, val) ==
    IF \E j \in DOMAIN entries : entries[j].k = key
    THEN [j \in DOMAIN entries |->
            IF entries[j].k = key THEN [k |-> key, v |-> val] ELSE entries[j]]
    ELSE Append(entries, [k |-> key, v |-> val])

RECURSIVE processValue(_, _, _)
RECURSIVE ProcessEntries(_, _, _, _, _)

\* the loop over Object.entries(value) that fills result
ProcessEntries(entries, j, result, map, ci) ==
    IF j > Len(entries) THEN result
    ELSE ProcessEntries(entries, j + 1,
                        AssignKey(result,
                                  RenameString(entries[j].k, map, 1, ci),
                                  processValue(entries[j].v, map, ci)),
                        map, ci)

\* a processValue without its Array.isArray branch: an array is returned as
\* it is
processValueSkipsArrays(value, map, ci) ==
    CASE value.t = "str" ->
           [t |-> "str", s |-> RenameString(value.s, map, 1, ci)]
      [] value.t = "obj" ->
           [t |-> "obj",
            entries |-> ProcessEntries(value.entries, 1, <<>>, map, ci)]
      [] OTHER -> value

processValue(value, map, ci) ==
    CASE value.t = "str" ->
           [t |-> "str", s |-> RenameString(value.s, map, 1, ci)]
      [] value.t = "arr" ->
           [t |-> "arr",
            items |-> [j \in DOMAIN value.items |->
                         processValue(value.items[j], map, ci)]]
      [] value.t = "obj" ->
           [t |-> "obj",
            entries |-> ProcessEntries(value.entries, 1, <<>>, map, ci)]
      [] OTHER -> value

\* the value holds a string or an object key, so that processValue builds
\* a RegExp for it
RECURSIVE HasStringOrKey(_)
HasStringOrKey(value) ==
    CASE value.t = "str" -> TRUE
      [] value.t = "arr" ->
           \E j \in DOMAIN value.items : HasStringOrKey(value.items[j])
      [] value.t = "obj" -> Len(value.entries) > 0
      [] OTHER -> FALSE

\* a document that parses: its layout and the value it parses to.  The
\* layouts are "pretty2" (JSON.stringify(v, null, 2)), "pretty2eol"
\* (fs-extra's writeJson with spaces: 2, which ends the text with a line
\* break), "yaml" (the yaml package's stringify) and "other" (any other text
\* of the same value)
DocOf(kind, layout, tree) == [kind |-> kind, layout |-> layout, tree |-> tree]

\* JSON.parse / parseYaml succeed on this content
Parses(content, kind) == content.kind = kind

\* JSON.stringify(processedData, null, 2)
JsonStringify(tree) == DocOf("json", "pretty2", tree)

\* require("yaml").stringify(processedData)
YamlStringify(tree) == DocOf("yaml", "yaml", tree)

\* a catch block that does treat the content as plain text, as its warning
\* says
processJsonFileAsText(content, options) ==
    IF ~Parses(content, "json") THEN processTypeScriptFile(content, options)
    ELSE Returned(JsonStringify(
             processValue(content.tree, RenameMapOf(options),
                          IgnoreCase(options))))

\* the try block of processJsonFile / processYamlFile: a parse error and a
\* RegExp SyntaxError inside processValue both reach the catch, which
\* returns the content it was given
processJsonFile(content, options) ==
    IF ~Parses(content, "json") THEN Returned(content)
    ELSE IF HasStringOrKey(content.tree) /\ MapThrows(RenameMapOf(options))
         THEN Returned(content)
         ELSE Returned(JsonStringify(
                  processValue(content.tree, RenameMapOf(options),
                               IgnoreCase(options))))

processYamlFile(content, options) ==
    IF ~Parses(content, "yaml") THEN Returned(content)
    ELSE IF HasStringOrKey(content.tree) /\ MapThrows(RenameMapOf(options))
         THEN Returned(content)
         ELSE Returned(YamlStringify(
                  processValue(content.tree, RenameMapOf(options),
                               IgnoreCase(options))))

(***************************************************************************)
(* processEnvFile                                                          *)
(***************************************************************************)
\* rules that insert the new token in the casing it was given in
EnvPairKeepsCase(old, new) ==
    << Rule(<< Open(1) >> \o TokRe(ToUpperCase(old)) \o << Close(1) >>,
            << Txt(new) >>),
       Rule(<< Lit(<<"=">>) >> \o TokRe(old), << Txt(<<"=">> \o new) >>) >>

\* (<OLD>) -> <NEW>, then =<old> -> =<new>
EnvPair(old, new) ==
    << Rule(<< Open(1) >> \o TokRe(ToUpperCase(old)) \o << Close(1) >>,
            << Txt(ToUpperCase(new)) >>),
       Rule(<< Lit(<<"=">>) >> \o TokRe(old), << Txt(<<"=">> \o new) >>) >>

RECURSIVE EnvLoop(_, _)
EnvLoop(map, i) ==
    IF i > Len(map) THEN <<>>
    ELSE EnvPair(map[i].old, map[i].new) \o EnvLoop(map, i + 1)

processEnvFile(content, options) ==
    IF MapThrows(RenameMapOf(options)) THEN Thrown
    ELSE Returned(TextOf(ApplyRules(content.chars,
                                    EnvLoop(RenameMapOf(options), 1), 1,
                                    IgnoreCase(options))))

(***************************************************************************)
(* processDockerFile                                                       *)
(***************************************************************************)
KwFROM == <<"F","R","O","M">>

KwImage == <<"i","m","a","g","e",":">>

KwENV == <<"E","N","V">>

KwARG == <<"A","R","G">>

\* (FROM|image:)\s*([^\s]*<old>[^\s]*)
FromImageRe(old) ==
    << Open(1), Alt(<< << Lit(KwFROM) >>, << Lit(KwImage) >> >>), Close(1),
       Star(Space), Open(2), Star(NotCls(SpaceChars)) >>
    \o TokRe(old)
    \o << Star(NotCls(SpaceChars)), Close(2) >>

\* (ENV|ARG)\s+(<OLD>)
EnvArgRe(old) ==
    << Open(1), Alt(<< << Lit(KwENV) >>, << Lit(KwARG) >> >>), Close(1),
       Plus(Space), Open(2) >>
    \o TokRe(ToUpperCase(old))
    \o << Close(2) >>

DockerPair(old, new) ==
    << Rule(FromImageRe(old),
            << Cap(1), Txt(<<" ">>), CapSub(2, old, new) >>),
       Rule(EnvArgRe(old), << Cap(1), Txt(<<" ">> \o ToUpperCase(new)) >>) >>

RECURSIVE DockerLoop(_, _)
DockerLoop(map, i) ==
    IF i > Len(map) THEN <<>>
    ELSE DockerPair(map[i].old, map[i].new) \o DockerLoop(map, i + 1)

processDockerFile(content, options) ==
    IF MapThrows(RenameMapOf(options)) THEN Thrown
    ELSE Returned(TextOf(ApplyRules(content.chars,
                                    DockerLoop(RenameMapOf(options), 1), 1,
                                    IgnoreCase(options))))

(***************************************************************************)
(* processMarkdownFile                                                     *)
(***************************************************************************)
\* the pattern the source string of codeBlockRegex denotes: every backtick
\* is preceded by a literal backslash,
\*   ( \\ BT \\ BT \\ [\\s\\S]*? \\ BT \\ BT \\ BT | \\ BT [^\\ BT]* \\ BT )
\* where BT is the backtick and \\ a literal backslash
CodeBlockRe ==
    << Open(1),
       Alt(<< << Lit(<<"\\",Backtick,"\\",Backtick,"\\">>),
                 LazyStar(Cls({"\\", "s", "S"})),
                 Lit(<<"\\",Backtick,"\\",Backtick,"\\",Backtick>>) >>,
              << Lit(<<"\\",Backtick>>),
                 Star(NotCls({"\\", Backtick})),
                 Lit(<<"\\",Backtick>>) >> >>),
       Close(1) >>

\* \[([^\]]*)\]\(([^)]*<old>[^)]*)\)
LinkRe(old) ==
    << Lit(<<"[">>), Open(1), Star(NotCls({"]"})), Close(1), Lit(<<"]","(">>),
       Open(2), Star(NotCls({")"})) >>
    \o TokRe(old)
    \o << Star(NotCls({")"})), Close(2), Lit(<<")">>) >>

MarkdownPair(old, new) ==
    << Rule(CodeBlockRe, << AllSub(old, new) >>),
       Rule(LinkRe(old),
            << Txt(<<"[">>), Cap(1), Txt(<<"]","(">>),
               CapSub(2, old, new), Txt(<<")">>) >>),
       Rule(WordRe(old), << Txt(new) >>) >>

RECURSIVE MarkdownLoop(_, _)
MarkdownLoop(map, i) ==
    IF i > Len(map) THEN <<>>
    ELSE MarkdownPair(map[i].old, map[i].new) \o MarkdownLoop(map, i + 1)

processMarkdownFile(content, options) ==
    IF MapThrows(RenameMapOf(options)) THEN Thrown
    ELSE Returned(TextOf(ApplyRules(content.chars,
                                    MarkdownLoop(RenameMapOf(options), 1), 1,
                                    IgnoreCase(options))))


(***************************************************************************)
(* Paths and the file classifier of processFile                            *)
(***************************************************************************)
\* the index of the last occurrence of character c in s, or 0
RECURSIVE LastIndexOf(_, _, _)
LastIndexOf(s, c, i) ==
    IF i < 1 THEN 0
    ELSE IF s[i] = c THEN i
    ELSE LastIndexOf(s, c, i - 1)

\* path.basename
Basename(path) == SubSeq(path, LastIndexOf(path, "/", Len(path)) + 1, Len(path))

\* path.extname: from the last "." of the base name, unless that "." is its
\* first character or there is none
ExtName(path) ==
    LET base == Basename(path)
        dot == LastIndexOf(base, ".", Len(base))
    IN  IF dot <= 1 THEN <<>> ELSE SubSeq(base, dot, Len(base))

\* path.join(root, file)
PathJoin(root, file) == root \o <<"/">> \o file

CodeExts == { <<".","t","s">>, <<".","t","s","x">>, <<".","j","s">>, <<".","j","s","x">> }

JsonExts == { <<".","j","s","o","n">> }

YamlExts == { <<".","y","m","l">>, <<".","y","a","m","l">> }

MdExts == { <<".","m","d">> }

\* the if / else-if chain of processFile: the strategy applied to a path
StrategyOf(filePath) ==
    LET ext == ExtName(filePath)
    IN  IF ext \in CodeExts THEN "ts"
        ELSE IF ext \in JsonExts THEN "json"
        ELSE IF ext \in YamlExts THEN "yaml"
        ELSE IF Includes(filePath, <<"e","n","v">>) THEN "env"
        ELSE IF \/ Includes(filePath, <<"D","o","c","k","e","r","f","i","l","e">>)
                \/ Includes(filePath, <<"d","o","c","k","e","r","-","c","o","m","p","o","s","e">>) THEN "docker"
        ELSE IF ext \in MdExts THEN "md"
        ELSE "none"

\* a classifier chain whose last branch is an else: what no other branch
\* takes is rewritten as code
RewriteUnknownAsCode(filePath, content, options) ==
    LET strategy == StrategyOf(filePath)
    IN  CASE strategy = "json" -> processJsonFile(content, options)
          [] strategy = "yaml" -> processYamlFile(content, options)
          [] strategy = "env" -> processEnvFile(content, options)
          [] strategy = "docker" -> processDockerFile(content, options)
          [] strategy = "md" -> processMarkdownFile(content, options)
          [] OTHER -> processTypeScriptFile(content, options)

\* a processFile that applies no strategy in a preview
RewriteNothingInPreview(filePath, content, options) ==
    LET strategy == StrategyOf(filePath)
    IN  CASE "dry" \in DOMAIN options /\ options.dry -> Returned(content)
          [] strategy = "ts" -> processTypeScriptFile(content, options)
          [] strategy = "json" -> processJsonFile(content, options)
          [] strategy = "yaml" -> processYamlFile(content, options)
          [] strategy = "env" -> processEnvFile(content, options)
          [] strategy = "docker" -> processDockerFile(content, options)
          [] strategy = "md" -> processMarkdownFile(content, options)
          [] OTHER -> Returned(content)

\* newContent as processFile computes it from the content it has read
Rewrite(filePath, content, options) ==
    LET strategy == StrategyOf(filePath)
    IN  CASE strategy = "ts" -> processTypeScriptFile(content, options)
          [] strategy = "json" -> processJsonFile(content, options)
          [] strategy = "yaml" -> processYamlFile(content, options)
          [] strategy = "env" -> processEnvFile(content, options)
          [] strategy = "docker" -> processDockerFile(content, options)
          [] strategy = "md" -> processMarkdownFile(content, options)
          [] OTHER -> Returned(content)

\* an option that is set and true
IsOn(options, name) == name \in DOMAIN options /\ options[name]

(***************************************************************************)
(* findFilesToProcess: fast-glob over the tree.  A pattern is              *)
(*   ext     **/*.{e1,e2,...}    base name ends with one of the extensions *)
(*   infix   **/*<x>*            base name holds x after its first char    *)
(*   prefix  **/<x>*             base name starts with x                   *)
(*   dir     <d>/**              the path starts with directory d          *)
(*   anydir  **/<d>/**           some directory of the path is d           *)
(* "*" does not match a leading "." of a name (fast-glob's dot: false).    *)
(***************************************************************************)
ExtGlob(exts) == [t |-> "ext", exts |-> exts]

InfixGlob(x) == [t |-> "infix", x |-> x]

PrefixGlob(x) == [t |-> "prefix", x |-> x]

DirGlob(d) == [t |-> "dir", d |-> d]

AnyDirGlob(d) == [t |-> "anydir", d |-> d]

\* some directory or the file of the path has a name that starts with "."
HasDotName(rel) == (rel # <<>> /\ rel[1] = ".") \/ Includes(rel, <<"/", ".">>)

GlobMatches(g, rel) ==
    LET base == Basename(rel)
    IN  CASE g.t = "ext" ->
               /\ ~HasDotName(rel)
               /\ \E e \in g.exts : Len(base) > Len(e) /\ EndsWith(base, e)
          [] g.t = "infix" ->
               /\ ~HasDotName(rel) /\ base # <<>>
               /\ Includes(Tail(base), g.x)
          [] g.t = "prefix" -> ~HasDotName(rel) /\ StartsWith(base, g.x)
          [] g.t = "dir" -> StartsWith(rel, g.d \o <<"/">>)
          [] g.t = "anydir" ->
               \/ StartsWith(rel, g.d \o <<"/">>)
               \/ Includes(rel, <<"/">> \o g.d \o <<"/">>)

\* the patterns findFilesToProcess falls back to
DefaultInclude ==
    << ExtGlob({ <<".","t","s">>, <<".","t","s","x">>, <<".","j","s">>, <<".","j","s","x">> }),
       ExtGlob({ <<".","j","s","o","n">>, <<".","y","m","l">>, <<".","y","a","m","l">> }),
       InfixGlob(<<".","e","n","v">>),
       PrefixGlob(<<"D","o","c","k","e","r","f","i","l","e">>),
       PrefixGlob(<<"d","o","c","k","e","r","-","c","o","m","p","o","s","e">>),
       ExtGlob({ <<".","m","d">> }) >>

DefaultIgnore ==
    << DirGlob(<<"n","o","d","e","_","m","o","d","u","l","e","s">>), DirGlob(<<"d","i","s","t">>), DirGlob(<<"b","u","i","l","d">>),
       DirGlob(<<".","g","i","t">>), AnyDirGlob(<<"c","o","v","e","r","a","g","e">>) >>

\* fg(patterns, { cwd: root, ignore }): the files of the tree, each once, that
\* match a pattern and no ignore pattern; then path.join(root, file).  The
\* result is the sequence of positions in the tree, in the tree's order.
Listed(rel, options) ==
    LET patterns == IF "include" \in DOMAIN options
                    THEN options.include ELSE DefaultInclude
        ignore == IF "ignore" \in DOMAIN options
                  THEN options.ignore ELSE DefaultIgnore
    IN  /\ \E i \in DOMAIN patterns : GlobMatches(patterns[i], rel)
        /\ \A i \in DOMAIN ignore : ~GlobMatches(ignore[i], rel)

RECURSIVE FilterFrom(_, _, _)
FilterFrom(tree, i, options) ==
    IF i > Len(tree) THEN <<>>
    ELSE (IF Listed(tree[i], options) THEN <<i>> ELSE <<>>)
         \o FilterFrom(tree, i + 1, options)

\* a glob call with unique: false and overlapping patterns: a file that
\* matches twice is listed twice
findFilesListedTwice(tree, options) ==
    FilterFrom(tree, 1, options) \o FilterFrom(tree, 1, options)

findFilesToProcess(tree, options) == FilterFrom(tree, 1, options)


(***************************************************************************)
(* config.ts: loadConfig, getDefaultConfig, mergeConfigWithArgs.  A config *)
(* or an args object is a record that holds only the keys that are set.    *)
(***************************************************************************)
NoKeys == [k \in {} |-> TRUE]

\* { out: rec[name] } when rec sets name, {} otherwise
Pick(rec, name, out) == IF name \in DOMAIN rec THEN out :> rec[name] ELSE NoKeys

\* { out: a[aname] ?? c[cname] }
Coalesce(a, aname, c, cname, out) ==
    IF aname \in DOMAIN a THEN out :> a[aname] ELSE Pick(c, cname, out)

DefaultConcurrency == 10

\* a concurrency value: the number n, or the string of the digits of n (the
\* command line declares --concurrency a string option)
Number(n) == [n |-> n, text |-> FALSE]

NumberText(n) == [n |-> n, text |-> TRUE]

getDefaultConfig ==
    [ updatePackage |-> FALSE,
      updateRemote |-> FALSE,
      caseSensitive |-> FALSE,
      dry |-> FALSE,
      ignore |-> DefaultIgnore \o << ExtGlob({ <<".","l","o","g">> }) >>,
      include |-> DefaultInclude,
      concurrency |-> Number(DefaultConcurrency) ]

PackageJsonName == <<"p","a","c","k","a","g","e",".","j","s","o","n">>

\* the position of package.json in the tree, or 0
PackageJsonAt(tree) ==
    IF \E i \in DOMAIN tree : tree[i] = PackageJsonName
    THEN CHOOSE i \in DOMAIN tree : tree[i] = PackageJsonName
    ELSE 0

\* obj[key] of a parsed object: the entry's value, or [t |-> "undefined"]
Member(value, key) ==
    IF value.t = "obj" /\ \E j \in DOMAIN value.entries : value.entries[j].k = key
    THEN value.entries[CHOOSE j \in DOMAIN value.entries :
                         value.entries[j].k = key].v
    ELSE [t |-> "undefined"]

\* the keys of a config object the run reads, as the parsed JSON names them
ConfigKeys ==
    << [chars |-> <<"d","r","y">>, name |-> "dry", t |-> "bool"],
       [chars |-> <<"u","p","d","a","t","e","P","a","c","k","a","g","e">>, name |-> "updatePackage", t |-> "bool"],
       [chars |-> <<"u","p","d","a","t","e","R","e","m","o","t","e">>, name |-> "updateRemote", t |-> "bool"],
       [chars |-> <<"c","a","s","e","S","e","n","s","i","t","i","v","e">>, name |-> "caseSensitive", t |-> "bool"],
       [chars |-> <<"c","o","n","c","u","r","r","e","n","c","y">>, name |-> "concurrency", t |-> "num"] >>

\* the config a parsed object is read as
RECURSIVE ConfigFrom(_, _)
ConfigFrom(value, i) ==
    IF i > Len(ConfigKeys) THEN NoKeys
    ELSE LET key == ConfigKeys[i]
             v == Member(value, key.chars)
         IN  (IF v.t = key.t
              THEN key.name :> (IF key.t = "bool" THEN v.b ELSE Number(v.n))
              ELSE NoKeys)
             @@ ConfigFrom(value, i + 1)

SafeRenameKey == <<"s","a","f","e","R","e","n","a","m","e">>

\* the loop of loadConfig from configPaths[i] on: rc holds the three direct
\* config files (.saferenamerc.json, .saferenamerc, safe-rename.config.json),
\* each "absent", "malformed" or "ok" with its config; the fourth path is
\* package.json, read for its safeRename field
RECURSIVE LoadFrom(_, _, _, _)
LoadFrom(rc, i, tree, disk) ==
    IF i <= Len(rc)
    THEN IF rc[i].s = "ok" THEN rc[i].config
         ELSE LoadFrom(rc, i + 1, tree, disk)
    ELSE LET at == PackageJsonAt(tree)
         IN  IF /\ at # 0
                /\ Parses(disk[at], "json")
                /\ Member(disk[at].tree, SafeRenameKey).t = "obj"
             THEN ConfigFrom(Member(disk[at].tree, SafeRenameKey), 1)
             ELSE getDefaultConfig

loadConfig(rc, tree, disk) == LoadFrom(rc, 1, tree, disk)

\* a property key that is an array index: the canonical text of an integer
\* (below 2^32 - 1, which every key of this length is)
IsArrayIndex(key) ==
    /\ key # <<>>
    /\ \A i \in DOMAIN key : key[i] \in Digits
    /\ Len(key) = 1 \/ key[1] # "0"

DigitValue ==
    [c \in Digits |->
       CHOOSE n \in 0..9 : <<"0","1","2","3","4","5","6","7","8","9">>[n + 1] = c]

RECURSIVE IndexValue(_, _, _)
\* the integer an array index key stands for
IndexValue(key, i, acc) ==
    IF i > Len(key) THEN acc
    ELSE IndexValue(key, i + 1, acc * 10 + DigitValue[key[i]])

RECURSIVE ParsePairs(_, _, _)
\* the properties JSON.parse defines, pair after pair of the text: a key that
\* comes again keeps its place and takes the later value
ParsePairs(pairs, i, obj) ==
    IF i > Len(pairs) THEN obj
    ELSE ParsePairs(pairs, i + 1,
           IF \E j \in DOMAIN obj : obj[j].old = pairs[i].old
           THEN [j \in DOMAIN obj |->
                   IF obj[j].old = pairs[i].old THEN pairs[i] ELSE obj[j]]
           ELSE Append(obj, pairs[i]))

RECURSIVE Ascending(_)
\* properties whose keys are array indices, in ascending order of the index
Ascending(obj) ==
    IF obj = <<>> THEN <<>>
    ELSE LET m == CHOOSE j \in DOMAIN obj :
                     \A h \in DOMAIN obj :
                         IndexValue(obj[j].old, 1, 0) <= IndexValue(obj[h].old, 1, 0)
         IN  << obj[m] >>
             \o Ascending([j \in 1..(Len(obj) - 1) |->
                              IF j < m THEN obj[j] ELSE obj[j + 1]])

\* Object.entries of an object: the array index keys in ascending order,
\* then the other keys in the order they were defined in
ObjectEntries(obj) ==
    Ascending(SelectSeq(obj, LAMBDA p : IsArrayIndex(p.old)))
    \o SelectSeq(obj, LAMBDA p : ~IsArrayIndex(p.old))

\* JSON.parse(args["multi-map"]), as Object.entries enumerates the object
JsonParseMap(text) == ObjectEntries(ParsePairs(text.map, 1, <<>>))

\* args["multi-map"] is set to text that JSON.parse rejects
MergeThrows(args) == "multi-map" \in DOMAIN args /\ ~args["multi-map"].ok

mergeConfigWithArgs(config, args) ==
    Coalesce(args, "update-package", config, "updatePackage", "updatePackage")
    @@ Coalesce(args, "update-remote", config, "updateRemote", "updateRemote")
    @@ Coalesce(args, "case-sensitive", config, "caseSensitive", "caseSensitive")
    @@ Coalesce(args, "dry", config, "dry", "dry")
    @@ (IF "multi-map" \in DOMAIN args
        THEN "multiMap" :> JsonParseMap(args["multi-map"])
        ELSE Pick(config, "multiMap", "multiMap"))
    @@ Coalesce(args, "concurrency", config, "concurrency", "concurrency")
    @@ config

\* args["old-name"] || args.oldName: a name that is set and not empty
NameArg(args, dashed, camel) ==
    IF dashed \in DOMAIN args /\ args[dashed] # <<>> THEN args[dashed]
    ELSE IF camel \in DOMAIN args THEN args[camel]
    ELSE <<>>

\* the RenameOptions runSafeRename builds
OptionsOf(args, mergedConfig) ==
    [ oldName |-> NameArg(args, "old-name", "oldName"),
      newName |-> NameArg(args, "new-name", "newName") ]
    @@ Pick(mergedConfig, "updatePackage", "updatePackage")
    @@ Pick(mergedConfig, "updateRemote", "updateRemote")
    @@ Pick(mergedConfig, "dry", "dry")
    @@ Pick(mergedConfig, "multiMap", "multiMap")
    @@ Pick(mergedConfig, "caseSensitive", "caseSensitive")
    @@ Pick(mergedConfig, "ignore", "ignore")
    @@ Pick(mergedConfig, "include", "include")
    @@ Pick(mergedConfig, "concurrency", "concurrency")

(***************************************************************************)
(* The command-line entry: minimist, validateRenameOptions,                *)
(* validateMultiMap and main                                               *)
(***************************************************************************)
CliBooleans == {"dry", "case-sensitive", "update-package", "update-remote"}

\* the default of --concurrency ("10")
CliDefaultConcurrency == 10

\* minimist(argv, { boolean: [...], string: [...], default: {concurrency} }):
\* a boolean option that is not given is false, not undefined
Minimist(argv) ==
    [b \in CliBooleans |-> IF b \in DOMAIN argv THEN argv[b] ELSE FALSE]
    @@ Pick(argv, "old-name", "old-name")
    @@ Pick(argv, "new-name", "new-name")
    @@ Pick(argv, "multi-map", "multi-map")
    @@ (IF "concurrency" \in DOMAIN argv
        THEN "concurrency" :> NumberText(argv.concurrency.n)
        ELSE "concurrency" :> NumberText(CliDefaultConcurrency))

\* String.prototype.trim
RECURSIVE TrimStart(_)
TrimStart(s) ==
    IF s # <<>> /\ s[1] \in SpaceChars THEN TrimStart(Tail(s)) ELSE s

RECURSIVE TrimEnd(_)
TrimEnd(s) ==
    IF s # <<>> /\ s[Len(s)] \in SpaceChars
    THEN TrimEnd(SubSeq(s, 1, Len(s) - 1)) ELSE s

Trim(s) == TrimEnd(TrimStart(s))

MaxNameLength == 255

\* /[<>:"/\\|?*\x00-\x1f]/
InvalidChars == {"<", ">", ":", "\"", "/", "\\", "|", "?", "*", "\n", "\t"}

HasInvalidChar(s) == \E i \in DOMAIN s : s[i] \in InvalidChars

\* the errors validateRenameOptions collects, in its order; a name that is
\* undefined is the empty text here (both are falsy)
validateRenameOptions(oldName, newName) ==
    (IF Trim(oldName) = <<>>
     THEN << [field |-> "oldName", message |-> "required"] >> ELSE <<>>)
    \o (IF Len(oldName) > MaxNameLength
        THEN << [field |-> "oldName", message |-> "too long"] >> ELSE <<>>)
    \o (IF Trim(newName) = <<>>
        THEN << [field |-> "newName", message |-> "required"] >> ELSE <<>>)
    \o (IF Len(newName) > MaxNameLength
        THEN << [field |-> "newName", message |-> "too long"] >> ELSE <<>>)
    \o (IF oldName # <<>> /\ newName # <<>> /\ Trim(oldName) = Trim(newName)
        THEN << [field |-> "newName", message |-> "same"] >> ELSE <<>>)
    \o (IF HasInvalidChar(oldName)
        THEN << [field |-> "oldName", message |-> "invalid characters"] >>
        ELSE <<>>)
    \o (IF HasInvalidChar(newName)
        THEN << [field |-> "newName", message |-> "invalid characters"] >>
        ELSE <<>>)

\* the range validateConfig allows for concurrency
MinConcurrency == 1

MaxConcurrency == 100

\* validation.isValid
IsValid(errors) == Len(errors) = 0

RECURSIVE MultiMapErrors(_, _)
MultiMapErrors(map, i) ==
    IF i > Len(map) THEN <<>>
    ELSE validateRenameOptions(map[i].old, map[i].new)
         \o MultiMapErrors(map, i + 1)

validateMultiMap(map) == MultiMapErrors(map, 1)

\* main() goes on to runSafeRename: both names are given and valid, and a
\* multi-map, when given, parses and is valid
MainAccepts(args) ==
    /\ NameArg(args, "old-name", "old-name") # <<>>
    /\ NameArg(args, "new-name", "new-name") # <<>>
    /\ IsValid(validateRenameOptions(args["old-name"], args["new-name"]))
    /\ "multi-map" \in DOMAIN args =>
         /\ args["multi-map"].ok
         /\ IsValid(validateMultiMap(JsonParseMap(args["multi-map"])))


(***************************************************************************)
(* updatePackageJson and updateGitRemote: what they compute                *)
(***************************************************************************)
RECURSIVE DeleteKey(_, _)
\* delete obj[key]
DeleteKey(entries, key) ==
    IF entries = <<>> THEN <<>>
    ELSE (IF Head(entries).k = key THEN <<>> ELSE << Head(entries) >>)
         \o DeleteKey(Tail(entries), key)

\* Object.keys(deps).find(key => key.includes(oldName)): its position, or 0
FindDepKey(entries, old) ==
    IF \E j \in DOMAIN entries : Includes(entries[j].k, old)
    THEN CHOOSE j \in DOMAIN entries :
           /\ Includes(entries[j].k, old)
           /\ \A h \in 1..(j - 1) : ~Includes(entries[h].k, old)
    ELSE 0

\* the loop over the rename map for one dependency section
RECURSIVE RenameDeps(_, _, _, _)
RenameDeps(entries, map, i, ci) ==
    IF i > Len(map) THEN [threw |-> FALSE, entries |-> entries]
    ELSE
      LET at == FindDepKey(entries, map[i].old)
      IN  IF at = 0 THEN RenameDeps(entries, map, i + 1, ci)
          ELSE IF RegExpThrows(map[i].old) THEN [threw |-> TRUE]
          ELSE
            LET oldDepKey == entries[at].k
                newDepKey == Replace(oldDepKey, TokRe(map[i].old), ci,
                                     << Txt(map[i].new) >>)
            IN  RenameDeps(DeleteKey(AssignKey(entries, newDepKey, entries[at].v),
                                     oldDepKey),
                           map, i + 1, ci)

DepTypes == << <<"d","e","p","e","n","d","e","n","c","i","e","s">>, <<"d","e","v","D","e","p","e","n","d","e","n","c","i","e","s">>, <<"p","e","e","r","D","e","p","e","n","d","e","n","c","i","e","s">> >>

NameKey == <<"n","a","m","e">>

\* the forEach over the dependency sections
RECURSIVE RenameSections(_, _, _, _)
RenameSections(pkg, d, map, ci) ==
    IF d > Len(DepTypes) THEN [threw |-> FALSE, pkg |-> pkg]
    ELSE
      LET section == Member(pkg, DepTypes[d])
      IN  IF section.t # "obj" THEN RenameSections(pkg, d + 1, map, ci)
          ELSE
            LET r == RenameDeps(section.entries, map, 1, ci)
            IN  IF r.threw THEN [threw |-> TRUE]
                ELSE RenameSections(
                       [pkg EXCEPT !.entries =
                          AssignKey(pkg.entries, DepTypes[d],
                                    [t |-> "obj", entries |-> r.entries])],
                       d + 1, map, ci)

\* the object updatePackageJson writes back, from the object readJson gave
RenamePackage(pkg, options) ==
    LET named ==
          IF Member(pkg, NameKey) = [t |-> "str", s |-> options.oldName]
          THEN [pkg EXCEPT !.entries =
                  AssignKey(pkg.entries, NameKey,
                            [t |-> "str", s |-> options.newName])]
          ELSE pkg
    IN  RenameSections(named, 1, RenameMapOf(options), IgnoreCase(options))

\* fs.writeJson(path, obj, { spaces: 2 })
WriteJson(tree) == DocOf("json", "pretty2eol", tree)

KwOrigin == <<"o","r","i","g","i","n">>

KwFetch == <<"(","f","e","t","c","h",")">>

\* the output of "git remote -v" for a repository whose origin is url
RemoteListing(url) ==
    KwOrigin \o <<"\t">> \o url \o <<" ">> \o KwFetch \o <<"\n">>
    \o KwOrigin \o <<"\t">> \o url \o <<" ">> \o <<"(","p","u","s","h",")">> \o <<"\n">>

\* (origin\s +.*? <old>.*?) \s +\(fetch\)
RemoteRe(old) ==
    << Open(1), Lit(KwOrigin), Space, Plus(Cls({" "})), LazyStar(Dot),
       Lit(<<" ">>) >>
    \o TokRe(old)
    \o << LazyStar(Dot), Close(1), Lit(<<" ">>), Space, Plus(Cls({" "})),
          Lit(KwFetch) >>

\* stdout.match(remoteRegex) is not null for some pair of the map, so that
\* updateGitRemote runs its "git remote set - url origin ..." command
RemoteMatches(url, options) ==
    \E i \in DOMAIN RenameMapOf(options) :
        FindMatch(RemoteRe(RenameMapOf(options)[i].old), RemoteListing(url),
                  1, TRUE).ok


(***************************************************************************)
(* The inputs of a run: the working tree, the config files, the remote and *)
(* the invocation                                                          *)
(***************************************************************************)
\* the number of files of the working tree
MaxFiles == 3

\* the number of times the tool is run over the same tree
MaxRuns == 2

Str(s) == [t |-> "str", s |-> s]

Num(n) == [t |-> "num", n |-> n]

Bool(b) == [t |-> "bool", b |-> b]

Null == [t |-> "null"]

Arr(items) == [t |-> "arr", items |-> items]

Obj(entries) == [t |-> "obj", entries |-> entries]

Entry(k, v) == [k |-> k, v |-> v]

TokOld == <<"o","l","d">>

TokNew == <<"n","e","w">>

\* a new token that contains the old one
TokOldV == <<"o","l","d","-","v">>

\* a token that leaves a group of every pattern open
TokParen == <<"o","l","d","(">>

\* scoped package names, as in the README's package-rename example
TokScopedOld == <<"@","s","/","o","l","d">>

TokScopedNew == <<"@","s","/","n","e","w">>

\* the files a tree is drawn from
Catalogue ==
    << [rel |-> <<"a",".","t","s">>,
        content |-> TextOf(<<"i","m","p","o","r","t"," ","x"," ","f","r","o","m"," ","'","o","l","d","'">>)],
       [rel |-> <<"p","a","c","k","a","g","e",".","j","s","o","n">>,
        content |-> DocOf("json", "pretty2eol",
           Obj(<< Entry(<<"n","a","m","e">>, Str(<<"o","l","d">>)),
                  Entry(<<"d","e","p","e","n","d","e","n","c","i","e","s">>,
                        Obj(<< Entry(<<"o","l","d">>, Str(<<"1">>)),
                               Entry(<<"x","-","o","l","d">>, Str(<<"2">>)),
                               Entry(<<"n","e","w">>, Str(<<"3">>)) >>)) >>))],
       [rel |-> <<"b",".","j","s","o","n">>,
        content |-> TextOf(<<"{","o","l","d">>)],
       [rel |-> <<"e",".","y","a","m","l">>,
        content |-> TextOf(<<"o","l","d",":"," ","[">>)],
       [rel |-> <<"x",".","e","n","v">>,
        content |-> TextOf(<<"o","l","d","=","o","l","d">>)],
       [rel |-> <<"n",".","t","x","t">>,
        content |-> TextOf(<<"o","l","d">>)],
       [rel |-> <<"D","o","c","k","e","r","f","i","l","e">>,
        content |-> TextOf(<<"F","R","O","M"," "," ","o","l","d","/","i">>)],
       [rel |-> <<"k",".","t","s">>,
        content |-> TextOf(<<"c","o","n","s","t"," ","k"," ","="," ","1">>)],
       [rel |-> <<"t",".","j","s","o","n">>,
        content |-> DocOf("json", "pretty2eol", Obj(<< Entry(<<"n">>, Num(1)) >>))],
       [rel |-> <<"c",".","j","s","o","n">>,
        content |-> DocOf("json", "other",
           Obj(<< Entry(<<"o","l","d">>, Str(<<"v">>)), Entry(<<"n">>, Num(1)) >>))],
       [rel |-> <<"r",".","m","d">>,
        content |-> TextOf(<<"s","e","e"," ","[","o","l","d","]","(","u","/","o","l","d",")">>)],
       [rel |-> <<"d",".","y","m","l">>,
        content |-> DocOf("yaml", "yaml",
           Obj(<< Entry(<<"i","m","a","g","e">>, Str(<<"o","l","d">>)),
                  Entry(<<"l">>,
                        Arr(<< Str(<<"o","l","d">>),
                               Num(1),
                               Obj(<< Entry(<<"o","l","d">>,
                                            Arr(<< Str(<<"x","-","o","l","d">>),
                                                   Bool(TRUE),
                                                   Null >>)) >>) >>)) >>))],
       [rel |-> <<"d","i","s","t","/","m",".","t","s">>,
        content |-> TextOf(<<"r","e","q","u","i","r","e","(","'","o","l","d","'",")">>)],
       [rel |-> <<"e","n","v",".","m","d">>,
        content |-> TextOf(<<"[","o","l","d","]","(","u","/","o","l","d",")">>)] >>

\* the tree of MaxFiles files that starts at entry i of the catalogue
Window(i) ==
    [j \in 1..MaxFiles |-> Catalogue[((i + j - 2) % Len(Catalogue)) + 1]]

\* process.cwd()
Cwd == <<"/","w">>

Absent == [s |-> "absent"]

Malformed == [s |-> "malformed"]

ConfigFile(config) == [s |-> "ok", config |-> config]

NoConfigFiles == << Absent, Absent, Absent >>

\* --multi-map text that holds the pairs in this order / that JSON.parse
\* rejects
MapText(map) == [ok |-> TRUE, map |-> map]

BadMapText == [ok |-> FALSE]

Names(old, new) == ("old-name" :> old) @@ ("new-name" :> new)

\* the invocations: how the tool is entered ("api": runSafeRename is called
\* with ctx.args; "cli": main() with the parsed command line), the arguments
\* given, and the config files found in the working directory
Invocations ==
    << [entry |-> "api", rc |-> NoConfigFiles,
        argv |-> Names(TokOld, TokNew)],
       [entry |-> "api", rc |-> << ConfigFile(NoKeys), Absent, Absent >>,
        argv |-> Names(TokOld, TokNew) @@ ("concurrency" :> Number(1))],
       [entry |-> "api", rc |-> NoConfigFiles,
        argv |-> Names(TokOld, TokNew) @@ ("dry" :> TRUE)
                 @@ ("update-package" :> TRUE) @@ ("update-remote" :> TRUE)
                 @@ ("concurrency" :> Number(2))],
       [entry |-> "api",
        rc |-> << ConfigFile([concurrency |-> Number(2),
                              include |-> << ExtGlob({ <<".","t","x","t">>, <<".","t","s">>, <<".","j","s","o","n">> }),
                                              InfixGlob(<<".","e","n","v">>) >>]),
                  Absent, Absent >>,
        argv |-> Names(TokOld, TokNew)
                 @@ ("update-package" :> TRUE) @@ ("update-remote" :> TRUE)],
       [entry |-> "api", rc |-> NoConfigFiles,
        argv |-> Names(TokOld, TokOldV) @@ ("concurrency" :> Number(2))],
       [entry |-> "api", rc |-> NoConfigFiles,
        argv |-> Names(TokParen, TokNew) @@ ("update-package" :> TRUE)],
       [entry |-> "api", rc |-> NoConfigFiles,
        argv |-> ("old-name" :> <<>>) @@ ("new-name" :> TokNew)],
       [entry |-> "api", rc |-> NoConfigFiles,
        argv |-> Names(TokOld, TokNew) @@ ("multi-map" :> BadMapText)],
       [entry |-> "api", rc |-> << Malformed, ConfigFile([dry |-> TRUE]), Absent >>,
        argv |-> ("oldName" :> TokOld) @@ ("newName" :> TokNew)],
       [entry |-> "api", rc |-> NoConfigFiles,
        argv |-> Names(TokOld, TokNew) @@ ("case-sensitive" :> TRUE)
                 @@ ("multi-map" :>
                       MapText(<< [old |-> TokNew, new |-> <<"x">>],
                                  [old |-> TokOld, new |-> TokNew] >>))],
       [entry |-> "cli",
        rc |-> << ConfigFile([dry |-> TRUE, updatePackage |-> TRUE,
                              concurrency |-> Number(2)]), Absent, Absent >>,
        argv |-> Names(TokOld, TokNew)],
       [entry |-> "cli", rc |-> NoConfigFiles,
        argv |-> Names(TokOld, TokNew) @@ ("dry" :> TRUE)
                 @@ ("update-package" :> TRUE)],
       [entry |-> "cli", rc |-> NoConfigFiles,
        argv |-> Names(TokOld, TokNew) @@ ("update-package" :> TRUE)
                 @@ ("concurrency" :> Number(1))],
       [entry |-> "cli", rc |-> NoConfigFiles,
        argv |-> Names(TokOld, TokOld)],
       [entry |-> "cli", rc |-> NoConfigFiles,
        argv |-> Names(TokScopedOld, TokScopedNew)],
       [entry |-> "api", rc |-> NoConfigFiles,
        argv |-> Names(TokOld, TokOld)],
       [entry |-> "cli", rc |-> NoConfigFiles,
        argv |-> Names(TokOld, TokNew)
                 @@ ("multi-map" :>
                       MapText(<< [old |-> TokOld, new |-> <<"1">>],
                                  [old |-> <<"1">>, new |-> TokNew] >>))],
       [entry |-> "api", rc |-> NoConfigFiles,
        argv |-> Names(TokOld, TokNew) @@ ("update-package" :> TRUE)
                 @@ ("multi-map" :>
                       MapText(<< [old |-> <<"k">>, new |-> <<"z">>] >>))],
       [entry |-> "api",
        rc |-> << ConfigFile([concurrency |-> Number(MaxConcurrency + 1),
                              include |-> << ExtGlob({ <<".","t","s">> }) >>]),
                  Absent, Absent >>,
        argv |-> Names(TokOld, TokNew)],
       [entry |-> "api", rc |-> NoConfigFiles,
        argv |-> Names(TokParen, TokNew) @@ ("dry" :> TRUE)] >>

\* the origin the repository is cloned from
Remotes == { <<"g",".","i","o","/","o","l","d">> }


(***************************************************************************)
(* The state of the program                                                *)
(***************************************************************************)
VARIABLES
    pc,          \* where main / runSafeRename stands
    run,         \* the number of this run over the tree
    entry,       \* "cli" or "api"
    args,        \* ctx.args
    rc,          \* the config files of the working directory
    tree,        \* the relative paths of the working tree
    disk,        \* the content of each file of the tree
    remote,      \* the url of the repository's origin
    options,     \* the RenameOptions of the run
    files,       \* the resolved file list: positions of the tree
    limit,       \* the size of the pLimit gate
    queue,       \* the file tasks pLimit has not admitted yet, in order
    activeCount, \* the file tasks pLimit has admitted and not seen finish
    task,        \* per listed file: where its processFile stands
    results,     \* per listed file: what its processFile returned
    summary,     \* the counts reduced from results
    returned,    \* what runSafeRename returned to its caller
    hist,        \* what has happened in this run, for the properties
    prev         \* the summary and the disk at the end of the previous run

vars == << pc, run, entry, args, rc, tree, disk, remote, options, files, limit,
           queue, activeCount, task, results, summary, returned, hist, prev >>

NoResult == [set |-> FALSE]

\* an outcome that counts a failed file as processed too
OutcomeAlwaysProcessed(processed, modified, error) ==
    [set |-> TRUE, processed |-> TRUE, modified |-> modified, error |-> error]

\* an outcome that reports every processed file as modified
OutcomeAlwaysModified(processed, modified, error) ==
    [set |-> TRUE, processed |-> processed, modified |-> processed,
     error |-> error]

Outcome(processed, modified, error) ==
    [set |-> TRUE, processed |-> processed, modified |-> modified,
     error |-> error]

NoSummary == [set |-> FALSE]

\* nothing has happened yet in a run that starts from disk d
NoHistory(d) ==
    [ disk0 |-> d,
      starts |-> <<>>,
      outcomes |-> <<>>,
      writes |-> <<>>,
      failed |-> <<>>,
      read |-> <<>>,
      manifestWrites |-> 0,
      remoteCommands |-> 0 ]

Init ==
    /\ \E i \in DOMAIN Catalogue :
         /\ tree = [j \in 1..MaxFiles |-> Window(i)[j].rel]
         /\ disk = [j \in 1..MaxFiles |-> Window(i)[j].content]
    /\ \E v \in DOMAIN Invocations :
         /\ entry = Invocations[v].entry
         /\ rc = Invocations[v].rc
         /\ args = IF Invocations[v].entry = "cli"
                   THEN Minimist(Invocations[v].argv)
                   ELSE Invocations[v].argv
    /\ remote \in Remotes
    /\ pc = IF entry = "cli" THEN "main" ELSE "run"
    /\ run = 1
    /\ options = NoKeys
    /\ files = <<>>
    /\ limit = 0
    /\ queue = <<>>
    /\ activeCount = 0
    /\ task = <<>>
    /\ results = <<>>
    /\ summary = NoSummary
    /\ returned = "pending"
    /\ hist = NoHistory(disk)
    /\ prev = [set |-> FALSE]

inputs == << entry, args, rc, tree, remote >>

(***************************************************************************)
(* main (the command-line entry)                                           *)
(***************************************************************************)
\* the names are missing or invalid, or the multi-map is: process.exit(1)
MainRejects ==
    /\ pc = "main"
    /\ ~MainAccepts(args)
    /\ pc' = "exit"
    /\ UNCHANGED << run, disk, options, files, limit, queue, activeCount, task,
                    results, summary, returned, hist, prev, inputs >>

\* await runSafeRename({ cwd: process.cwd(), args })
MainRuns ==
    /\ pc = "main"
    /\ MainAccepts(args)
    /\ pc' = "run"
    /\ UNCHANGED << run, disk, options, files, limit, queue, activeCount, task,
                    results, summary, returned, hist, prev, inputs >>

(***************************************************************************)
(* runSafeRename up to the file pass                                       *)
(***************************************************************************)
\* mergeConfigWithArgs throws on the multi-map: the run is rejected
MergeFails ==
    /\ pc = "run"
    /\ MergeThrows(args)
    /\ pc' = "rejected"
    /\ UNCHANGED << run, disk, options, files, limit, queue, activeCount, task,
                    results, summary, returned, hist, prev, inputs >>

\* the options are built; a missing name ends the process
BuildOptions ==
    /\ pc = "run"
    /\ ~MergeThrows(args)
    /\ options' = OptionsOf(args,
                      mergeConfigWithArgs(loadConfig(rc, tree, disk), args))
    /\ pc' = IF options'.oldName = <<>> \/ options'.newName = <<>>
             THEN "exit" ELSE "glob"
    /\ UNCHANGED << run, disk, files, limit, queue, activeCount, task,
                    results, summary, returned, hist, prev, inputs >>

\* options.concurrency || 10: undefined and 0 are falsy, a string of digits
\* is not
GateSize(o) ==
    IF "concurrency" \in DOMAIN o /\ (o.concurrency.text \/ o.concurrency.n # 0)
    THEN o.concurrency ELSE Number(DefaultConcurrency)

\* pLimit(c) returns a gate: c is at least 1, and where the installed p-limit
\* checks Number.isInteger (strict), c is a number and not a string of digits
PLimitAccepts(c, strict) == c.n >= 1 /\ (strict => ~c.text)

\* the gate and the queue of a file pass over the list found
FilePass(found, size) ==
    /\ files' = found
    /\ limit' = size
    /\ queue' = [i \in DOMAIN found |-> i]
    /\ task' = [i \in DOMAIN found |-> [st |-> "queued"]]
    /\ results' = [i \in DOMAIN found |-> NoResult]
    /\ hist' = [hist EXCEPT
                  !.starts = [i \in DOMAIN found |-> 0],
                  !.outcomes = [i \in DOMAIN found |-> 0],
                  !.writes = [i \in DOMAIN found |-> 0],
                  !.failed = [i \in DOMAIN found |-> FALSE],
                  !.read = [i \in DOMAIN found |-> [set |-> FALSE]]]

\* findFilesToProcess, pLimit(...) and files.map(file => limit(...)): every
\* file is queued at the gate, in the list's order; pLimit throws a TypeError
\* for a size it does not accept, which rejects the run.  Which check the
\* installed p-limit makes is not fixed by the repository.
FindFiles ==
    /\ pc = "glob"
    /\ \E strict \in BOOLEAN :
         IF ~PLimitAccepts(GateSize(options), strict)
         THEN /\ pc' = "rejected"
              /\ UNCHANGED << files, limit, queue, task, results, hist >>
         ELSE /\ pc' = "filepass"
              /\ FilePass(findFilesToProcess(tree, options),
                          GateSize(options).n)
    /\ UNCHANGED << run, disk, options, activeCount, summary, returned, prev,
                    inputs >>

(***************************************************************************)
(* The file pass: one processFile per listed file behind the pLimit gate   *)
(***************************************************************************)
PathOf(i) == PathJoin(Cwd, tree[files[i]])

\* a gate that admits the head of its queue whether or not a slot is free
StartUngated(i) ==
    /\ pc = "filepass"
    /\ queue # <<>>
    /\ Head(queue) = i
    /\ queue' = Tail(queue)
    /\ activeCount' = activeCount + 1
    /\ task' = [task EXCEPT ![i] = [st |-> "reading"]]
    /\ hist' = [hist EXCEPT !.starts[i] = @ + 1]
    /\ UNCHANGED << pc, run, disk, options, files, limit, results, summary,
                    returned, prev, inputs >>

\* the gate admits the head of its queue while a slot is free, and
\* processFile starts: fs.readFile is issued
Start(i) ==
    /\ pc = "filepass"
    /\ queue # <<>>
    /\ Head(queue) = i
    /\ activeCount < limit
    /\ queue' = Tail(queue)
    /\ activeCount' = activeCount + 1
    /\ task' = [task EXCEPT ![i] = [st |-> "reading"]]
    /\ hist' = [hist EXCEPT !.starts[i] = @ + 1]
    /\ UNCHANGED << pc, run, disk, options, files, limit, results, summary,
                    returned, prev, inputs >>

\* a gate that does not release its slot when the task it admitted settles
SettleKeepsSlot(i, r) ==
    /\ results' = [results EXCEPT ![i] = r]
    /\ activeCount' = activeCount

\* processFile returns r: the promise of the gate settles and the slot is
\* released
Settle(i, r) ==
    /\ results' = [results EXCEPT ![i] = r]
    /\ activeCount' = activeCount - 1

\* a write guard that forgets the dry option
ShouldWriteInPreview(modified, o) == modified

\* a write guard that forgets the comparison of the contents
ShouldWriteUnmodified(modified, o) == ~IsOn(o, "dry")

\* the write guard of processFile
ShouldWrite(modified, o) == modified /\ ~IsOn(o, "dry")

\* processFile goes on with the content it has read and the result out of
\* the strategy: modified is computed, and either fs.writeFile is issued or
\* processFile returns
ReadDone(i, content, out) ==
    /\ hist' = [hist EXCEPT
                  !.read[i] = [set |-> TRUE, content |-> content],
                  !.failed[i] = out.threw,
                  !.outcomes[i] = IF out.threw
                                     \/ ~ShouldWrite(out.content # content, options)
                                  THEN @ + 1 ELSE @,
                  !.writes[i] = IF ~out.threw
                                   /\ ShouldWrite(out.content # content, options)
                                THEN @ + 1 ELSE @]
    /\ IF out.threw
       THEN /\ task' = [task EXCEPT ![i] = [st |-> "done"]]
            /\ Settle(i, Outcome(FALSE, FALSE, "rewrite"))
       ELSE IF ShouldWrite(out.content # content, options)
       THEN /\ task' = [task EXCEPT ![i] =
                          [st |-> "writing", newContent |-> out.content]]
            /\ UNCHANGED << results, activeCount >>
       ELSE /\ task' = [task EXCEPT ![i] = [st |-> "done"]]
            /\ Settle(i, Outcome(TRUE, out.content # content, "null"))

\* fs.readFile resolves: the strategy is chosen and applied
ReadOk(i) ==
    /\ pc = "filepass"
    /\ i \in DOMAIN task
    /\ task[i].st = "reading"
    /\ ReadDone(i, disk[files[i]], Rewrite(PathOf(i), disk[files[i]], options))
    /\ UNCHANGED << pc, run, disk, options, files, limit, queue, summary,
                    returned, prev, inputs >>

\* a processFile without its catch block: the rejection of fs.readFile gets
\* through Promise.all and rejects the run
ReadFailUncaught(i) ==
    /\ pc = "filepass"
    /\ i \in DOMAIN task
    /\ task[i].st = "reading"
    /\ pc' = "rejected"
    /\ task' = [task EXCEPT ![i] = [st |-> "done"]]
    /\ activeCount' = activeCount - 1
    /\ hist' = [hist EXCEPT !.failed[i] = TRUE]
    /\ UNCHANGED << run, disk, options, files, limit, queue, results, summary,
                    returned, prev, inputs >>

\* fs.readFile rejects: the catch block returns the error outcome
ReadFail(i) ==
    /\ pc = "filepass"
    /\ i \in DOMAIN task
    /\ task[i].st = "reading"
    /\ task' = [task EXCEPT ![i] = [st |-> "done"]]
    /\ Settle(i, Outcome(FALSE, FALSE, "read"))
    /\ hist' = [hist EXCEPT !.failed[i] = TRUE, !.outcomes[i] = @ + 1]
    /\ UNCHANGED << pc, run, disk, options, files, limit, queue, summary,
                    returned, prev, inputs >>

\* fs.writeFile resolves: the file holds newContent, processFile returns
WriteOk(i) ==
    /\ pc = "filepass"
    /\ i \in DOMAIN task
    /\ task[i].st = "writing"
    /\ disk' = [disk EXCEPT ![files[i]] = task[i].newContent]
    /\ task' = [task EXCEPT ![i] = [st |-> "done"]]
    /\ Settle(i, Outcome(TRUE, TRUE, "null"))
    /\ hist' = [hist EXCEPT !.outcomes[i] = @ + 1]
    /\ UNCHANGED << pc, run, options, files, limit, queue, summary,
                    returned, prev, inputs >>

\* fs.writeFile rejects (the file is not writable): the catch block returns
\* the error outcome
WriteFail(i) ==
    /\ pc = "filepass"
    /\ i \in DOMAIN task
    /\ task[i].st = "writing"
    /\ task' = [task EXCEPT ![i] = [st |-> "done"]]
    /\ Settle(i, Outcome(FALSE, FALSE, "write"))
    /\ hist' = [hist EXCEPT !.failed[i] = TRUE, !.outcomes[i] = @ + 1]
    /\ UNCHANGED << pc, run, disk, options, files, limit, queue, summary,
                    returned, prev, inputs >>

(***************************************************************************)
(* runSafeRename after the file pass                                       *)
(***************************************************************************)
RECURSIVE CountFrom(_, _, _)
\* results.reduce: the number of results from position i on for which
\* counts(result) is truthy
CountFrom(rs, i, field) ==
    IF i > Len(rs) THEN 0
    ELSE (IF field = "errors" THEN (IF rs[i].error # "null" THEN 1 ELSE 0)
          ELSE IF rs[i][field] THEN 1 ELSE 0)
         + CountFrom(rs, i + 1, field)

Summarise(rs) ==
    [set |-> TRUE,
     processed |-> CountFrom(rs, 1, "processed"),
     modified |-> CountFrom(rs, 1, "modified"),
     errors |-> CountFrom(rs, 1, "errors")]

\* Promise.all waits for every promise of the list
AllSettled(rs) == \A i \in DOMAIN rs : rs[i].set

\* a run that updates the manifest whether or not it was asked to
AfterSummaryUnasked(o) ==
    IF ~IsOn(o, "dry") THEN "manifest" ELSE "return"

\* what runSafeRename does after the summary
AfterSummary(o) ==
    IF IsOn(o, "updatePackage") /\ ~IsOn(o, "dry") THEN "manifest"
    ELSE IF IsOn(o, "updateRemote") /\ ~IsOn(o, "dry") THEN "remote"
    ELSE "return"

AfterManifest(o) ==
    IF IsOn(o, "updateRemote") /\ ~IsOn(o, "dry") THEN "remote" ELSE "return"

\* a Promise.all that is not awaited: the reduce runs over the pending
\* promises, whose fields are undefined, and the run goes on at once
BarrierNotAwaited ==
    /\ pc = "filepass"
    /\ summary' = [set |-> TRUE, processed |-> 0, modified |-> 0, errors |-> 0]
    /\ pc' = AfterSummary(options)
    /\ UNCHANGED << run, disk, options, files, limit, queue, activeCount,
                    task, results, returned, hist, prev, inputs >>

\* await Promise.all(...) resumes and the summary is reduced and printed
Barrier ==
    /\ pc = "filepass"
    /\ AllSettled(results)
    /\ summary' = Summarise(results)
    /\ pc' = AfterSummary(options)
    /\ UNCHANGED << run, disk, options, files, limit, queue, activeCount,
                    task, results, returned, hist, prev, inputs >>

\* updatePackageJson where <root>/package.json does not exist
ManifestAbsent ==
    /\ pc = "manifest"
    /\ PackageJsonAt(tree) = 0
    /\ pc' = AfterManifest(options)
    /\ UNCHANGED << run, disk, options, files, limit, queue, activeCount,
                    task, results, summary, returned, hist, prev, inputs >>

\* updatePackageJson reads, renames and writes <root>/package.json
ManifestWritten ==
    /\ pc = "manifest"
    /\ PackageJsonAt(tree) # 0
    /\ LET at == PackageJsonAt(tree)
           renamed == RenamePackage(disk[at].tree, options)
       IN  /\ Parses(disk[at], "json")
           /\ disk[at].tree.t = "obj"
           /\ ~renamed.threw
           /\ disk' = [disk EXCEPT ![at] = WriteJson(renamed.pkg)]
    /\ hist' = [hist EXCEPT !.manifestWrites = @ + 1]
    /\ pc' = AfterManifest(options)
    /\ UNCHANGED << run, options, files, limit, queue, activeCount,
                    task, results, summary, returned, prev, inputs >>

\* fs.readJson, new RegExp or fs.writeJson throws inside updatePackageJson:
\* nothing catches it, and the promise of runSafeRename is rejected
ManifestFails ==
    /\ pc = "manifest"
    /\ PackageJsonAt(tree) # 0
    /\ pc' = "rejected"
    /\ UNCHANGED << run, disk, options, files, limit, queue, activeCount,
                    task, results, summary, returned, hist, prev, inputs >>

\* updateGitRemote: the listing is matched against each pair; the command it
\* would run is not a git command, and the catch block swallows every failure
UpdateGitRemote ==
    /\ pc = "remote"
    /\ hist' = [hist EXCEPT !.remoteCommands =
                  IF RemoteMatches(remote, options) THEN @ + 1 ELSE @]
    /\ pc' = "return"
    /\ UNCHANGED << run, disk, options, files, limit, queue, activeCount,
                    task, results, summary, returned, prev, inputs >>

\* the body of runSafeRename ends without a return statement: its promise
\* resolves to undefined
Return ==
    /\ pc = "return"
    /\ returned' = "undefined"
    /\ pc' = "done"
    /\ UNCHANGED << run, disk, options, files, limit, queue, activeCount,
                    task, results, summary, hist, prev, inputs >>

\* the same invocation is made again over the tree that a run without a
\* failed file has left
RunAgain ==
    /\ pc = "done"
    /\ run < MaxRuns
    /\ summary.errors = 0
    /\ run' = run + 1
    /\ prev' = [set |-> TRUE, summary |-> summary, hist |-> hist,
                options |-> options]
    /\ pc' = IF entry = "cli" THEN "main" ELSE "run"
    /\ options' = NoKeys
    /\ files' = <<>>
    /\ limit' = 0
    /\ queue' = <<>>
    /\ activeCount' = 0
    /\ task' = <<>>
    /\ results' = <<>>
    /\ summary' = NoSummary
    /\ returned' = "pending"
    /\ hist' = NoHistory(disk)
    /\ UNCHANGED << disk, inputs >>

\* the invocation is made again without its dry flag over the tree that a
\* preview without a failed read has left: the preview is followed by the
\* run it was a preview of
RunAgainWithoutPreview ==
    /\ pc = "done"
    /\ run < MaxRuns
    /\ "dry" \in DOMAIN args
    /\ args["dry"]
    /\ \A i \in DOMAIN hist.read : hist.read[i].set
    /\ args' = [args EXCEPT !["dry"] = FALSE]
    /\ run' = run + 1
    /\ prev' = [set |-> TRUE, summary |-> summary, hist |-> hist,
                options |-> options]
    /\ pc' = IF entry = "cli" THEN "main" ELSE "run"
    /\ options' = NoKeys
    /\ files' = <<>>
    /\ limit' = 0
    /\ queue' = <<>>
    /\ activeCount' = 0
    /\ task' = <<>>
    /\ results' = <<>>
    /\ summary' = NoSummary
    /\ returned' = "pending"
    /\ hist' = NoHistory(disk)
    /\ UNCHANGED << disk, entry, rc, tree, remote >>

Next ==
    \/ MainRejects
    \/ MainRuns
    \/ MergeFails
    \/ BuildOptions
    \/ FindFiles
    \/ \E i \in 1..MaxFiles : Start(i)
    \/ \E i \in 1..MaxFiles : ReadOk(i)
    \/ \E i \in 1..MaxFiles : ReadFail(i)
    \/ \E i \in 1..MaxFiles : WriteOk(i)
    \/ \E i \in 1..MaxFiles : WriteFail(i)
    \/ Barrier
    \/ ManifestAbsent
    \/ ManifestWritten
    \/ ManifestFails
    \/ UpdateGitRemote
    \/ Return
    \/ RunAgain
    \/ RunAgainWithoutPreview

Spec == Init /\ [][Next]_vars

\* The event loop runs a callback whenever one is ready, and every fs call
\* returns, with its result or with an error: while the file pass has a step
\* it can take (the gate admitting a waiting task into a free slot, a read or
\* a write coming back, the await of Promise.all resuming), one is taken.
FilePassStep ==
    \/ \E i \in 1..MaxFiles :
          Start(i) \/ ReadFail(i) \/ WriteFail(i) \/ WriteOk(i) \/ ReadOk(i)
    \/ Barrier

FilePassFairness == WF_vars(FilePassStep)

FairSpec == Spec /\ FilePassFairness

(***************************************************************************)
(* Properties                                                              *)
(***************************************************************************)
\* the file tasks that have started and have not produced their outcome
InFlight == { i \in DOMAIN task : task[i].st \in {"reading", "writing"} }

\* the file tasks that wait at the gate
Waiting == { i \in DOMAIN task : task[i].st = "queued" }

PastFilePass == pc \in {"manifest", "remote", "return", "done"}

\* C1: during the file pass the number of files whose processFile has started
\* and has not yet returned is at most the limit the run was configured with
\* (options.concurrency || 10), whatever the list and the order of the I/O
\* completions
C1_AtMostLimitInFlight ==
    pc = "filepass" => Cardinality(InFlight) <= GateSize(options).n

\* the gate is full and holds a file back
C1_GateHoldsBack ==
    /\ pc = "filepass"
    /\ Cardinality(InFlight) = GateSize(options).n
    /\ Waiting # {}

\* C2: in a preview run nothing is written: processFile issues no write for
\* any file, the manifest and the remote updaters do nothing, and every file
\* holds the content it held when the run started
C2_PreviewWritesNothing ==
    IsOn(options, "dry") =>
        /\ disk = hist.disk0
        /\ \A i \in DOMAIN task : task[i].st # "writing" /\ hist.writes[i] = 0
        /\ hist.manifestWrites = 0
        /\ hist.remoteCommands = 0
        /\ pc \notin {"manifest", "remote"}

\* a preview run with both updaters asked for has ended, and a file of it
\* had content to rewrite
C2_PreviewRunWithChanges ==
    /\ IsOn(options, "dry")
    /\ IsOn(options, "updatePackage")
    /\ IsOn(options, "updateRemote")
    /\ PackageJsonAt(tree) # 0
    /\ pc = "done"
    /\ \E i \in DOMAIN results : results[i].modified

C4_OneOutcomePerFile ==
    /\ \A i \in DOMAIN results :
         /\ hist.starts[i] <= 1
         /\ hist.outcomes[i] <= hist.starts[i]
         /\ results[i].set <=> hist.outcomes[i] = 1
         /\ results[i].set => (results[i].processed <=> results[i].error = "null")
    /\ summary.set =>
         /\ \A i \in DOMAIN results : hist.starts[i] = 1 /\ hist.outcomes[i] = 1
         /\ summary.processed + summary.errors = Len(files)
         /\ summary.modified <= summary.processed

\* the summary of a full list with a failed file and a modified file
C4_SummaryOfMixedRun ==
    /\ summary.set
    /\ Len(files) = MaxFiles
    /\ summary.errors > 0
    /\ summary.modified > 0

\* C5: the summary is computed, and the manifest and remote updaters start,
\* only after every file of the list has produced its outcome: past the file
\* pass no file task is in flight or waits at the gate
C5_BarrierBeforePostPass ==
    (summary.set \/ PastFilePass \/ hist.manifestWrites > 0
       \/ hist.remoteCommands > 0) =>
        /\ summary.set
        /\ AllSettled(results)
        /\ InFlight = {}
        /\ Waiting = {}
        /\ queue = <<>>
        /\ activeCount = 0

\* the manifest updater is about to run after a pass over several files, one
\* of which was written
C5_UpdaterAfterPass ==
    /\ pc = "manifest"
    /\ Len(files) >= 2
    /\ \E i \in DOMAIN results : hist.writes[i] = 1

\* the number of writes processFile owes a file whose content it has read,
\* where out is what the strategy made of the content
WritesDue(content, out) ==
    IF ~out.threw /\ out.content # content THEN 1 ELSE 0

\* C6: in a run that is no preview a file is written exactly when the
\* content rewritten from what was read differs from what was read: one write
\* is issued where it differs, none where it is the same or nothing was read
C6_WrittenIffContentDiffers ==
    ~IsOn(options, "dry") =>
        \A i \in DOMAIN results :
            IF hist.read[i].set
            THEN hist.writes[i] =
                   WritesDue(hist.read[i].content,
                             Rewrite(PathOf(i), hist.read[i].content, options))
            ELSE hist.writes[i] = 0

\* a run that is no preview has ended with one file written and another file
\* read and left alone
C6_OneWrittenOneLeft ==
    /\ ~IsOn(options, "dry")
    /\ pc = "done"
    /\ \E i, j \in DOMAIN results :
         /\ hist.writes[i] = 1
         /\ disk[files[i]] # hist.disk0[files[i]]
         /\ hist.read[j].set
         /\ results[j].processed
         /\ hist.writes[j] = 0

\* no branch of the classifier of processFile takes this path
NoStrategyApplies(filePath) ==
    /\ ExtName(filePath) \notin CodeExts \cup JsonExts \cup YamlExts \cup MdExts
    /\ ~Includes(filePath, <<"e","n","v">>)
    /\ ~Includes(filePath, <<"D","o","c","k","e","r","f","i","l","e">>)
    /\ ~Includes(filePath, <<"d","o","c","k","e","r","-","c","o","m","p","o","s","e">>)

\* C7 as stated: a file to which no strategy applies is never changed and
\* never written, and its outcome is processed and not modified
C7_PassedThroughAndProcessed ==
    \A i \in DOMAIN results :
        NoStrategyApplies(PathOf(i)) =>
            /\ hist.writes[i] = 0
            /\ disk[files[i]] = hist.disk0[files[i]]
            /\ results[i].set => results[i].processed /\ ~results[i].modified

\* C7 as the code has it: a file to which no strategy applies is never
\* changed and never written; once it has been read its outcome is processed
\* and not modified, and when it cannot be read its outcome is the error
C7_PassedThroughOnceRead ==
    \A i \in DOMAIN results :
        NoStrategyApplies(PathOf(i)) =>
            /\ hist.writes[i] = 0
            /\ disk[files[i]] = hist.disk0[files[i]]
            /\ results[i].set /\ hist.read[i].set =>
                 results[i].processed /\ ~results[i].modified
            /\ results[i].set /\ ~hist.read[i].set =>
                 ~results[i].processed /\ results[i].error = "read"

\* a run that is no preview has ended: a file with no strategy, which holds
\* the old token, was read, and another file was written
C7_UnknownFileRead ==
    /\ ~IsOn(options, "dry")
    /\ pc = "done"
    /\ \E i, j \in DOMAIN results :
         /\ NoStrategyApplies(PathOf(i))
         /\ hist.read[i].set
         /\ hist.read[i].content = TextOf(TokOld)
         /\ results[i].processed
         /\ hist.writes[j] = 1

\* C8 as stated: when a run completes, what runSafeRename has returned to its
\* caller is defined (the summary of the run)
C8_ReturnsSummary ==
    pc = "done" => returned # "undefined"

CliName ==
    [dry |-> "dry", updatePackage |-> "update-package",
     updateRemote |-> "update-remote", caseSensitive |-> "case-sensitive"]

\* C9 as stated: in a run from the command line, a boolean option that the
\* command line does not supply (minimist reports it false) has the value of
\* the configuration file; with dry: true in the configuration file and no
\* --dry the run is a preview and no file is written
C9_ConfigFillsUnsuppliedOptions ==
    entry = "cli" /\ pc \notin {"main", "run", "exit"} =>
        LET config == loadConfig(rc, tree, hist.disk0)
        IN  /\ \A k \in DOMAIN CliName :
                 k \in DOMAIN config /\ ~args[CliName[k]] =>
                     IsOn(options, k) = config[k]
            /\ IsOn(config, "dry") /\ ~args["dry"] =>
                 /\ IsOn(options, "dry")
                 /\ disk = hist.disk0

RECURSIVE MentionsFrom(_, _, _)
\* token t occurs in s at position i or later, ignoring case
MentionsFrom(s, t, i) ==
    IF i + Len(t) - 1 > Len(s) THEN FALSE
    ELSE LitAt(s, i, t, TRUE) \/ MentionsFrom(s, t, i + 1)

RECURSIVE ValueMentions(_, _)
\* a string or a key of a parsed value holds token t, ignoring case
ValueMentions(value, t) ==
    CASE value.t = "str" -> MentionsFrom(value.s, t, 1)
      [] value.t = "arr" ->
           \E j \in DOMAIN value.items : ValueMentions(value.items[j], t)
      [] value.t = "obj" ->
           \E j \in DOMAIN value.entries :
               \/ MentionsFrom(value.entries[j].k, t, 1)
               \/ ValueMentions(value.entries[j].v, t)
      [] OTHER -> FALSE

\* the content of a file holds an old token of the map, ignoring case
Mentions(content, map) ==
    \E p \in DOMAIN map :
        IF content.kind = "text"
        THEN MentionsFrom(content.chars, map[p].old, 1)
        ELSE ValueMentions(content.tree, map[p].old)

\* a run after the first has its summary, and it is no preview
LaterRunSummed == run >= 2 /\ prev.set /\ summary.set /\ ~IsOn(options, "dry")

TokensInvalid ==
    ~IsValid(validateRenameOptions(NameArg(args, "old-name", "oldName"),
                                   NameArg(args, "new-name", "newName")))

\* C11 as stated: a run whose tokens are invalid (empty or missing, identical
\* old and new, too long, or with invalid characters) never reaches the file
\* pass of runSafeRename: no file is listed, read or written in it
C11_InvalidTokensStopBeforeFilePass ==
    TokensInvalid =>
        /\ pc \notin {"filepass", "manifest", "remote", "return", "done"}
        /\ hist.read = <<>>
        /\ hist.writes = <<>>

\* the tokens and the multi-map the run was entered with pass validation
ArgsValid ==
    /\ ~TokensInvalid
    /\ "multi-map" \in DOMAIN args =>
         /\ args["multi-map"].ok
         /\ IsValid(validateMultiMap(JsonParseMap(args["multi-map"])))

\* C12 as stated: only validation errors abort a run: with valid options,
\* once the file pass is over and its summary is made, no failure (of a file,
\* of the manifest updater, of the remote command) rejects runSafeRename
C12_OnlyValidationAborts ==
    (ArgsValid /\ summary.set) => pc # "rejected"

\* the content read for file i is not what the parser of its strategy accepts
FailsToParse(i) ==
    /\ hist.read[i].set
    /\ \/ /\ StrategyOf(PathOf(i)) = "json"
          /\ ~Parses(hist.read[i].content, "json")
       \/ /\ StrategyOf(PathOf(i)) = "yaml"
          /\ ~Parses(hist.read[i].content, "yaml")

\* C13: a JSON or YAML file that fails to parse is left as it is: it is never
\* written and its content stays, its outcome is processed, not modified and
\* no error, and the other files of the batch still get their outcomes, the
\* modified ones after their new content was written
C13_UnparsableLeftAlone ==
    \A i \in DOMAIN results :
        FailsToParse(i) =>
            /\ hist.writes[i] = 0
            /\ disk[files[i]] = hist.disk0[files[i]]
            /\ results[i].set =>
                 /\ results[i].processed
                 /\ ~results[i].modified
                 /\ results[i].error = "null"
            /\ summary.set =>
                 \A j \in DOMAIN results \ {i} :
                     /\ results[j].set
                     /\ results[j].modified /\ ~IsOn(options, "dry") =>
                          hist.writes[j] = 1

\* a run has ended in which a JSON file and a YAML file that hold the old
\* token failed to parse, and a third file was rewritten
C13_UnparsableBesideRewritten ==
    /\ pc = "done"
    /\ summary.errors = 0
    /\ \E i, j, k \in DOMAIN results :
         /\ FailsToParse(i) /\ StrategyOf(PathOf(i)) = "json"
         /\ FailsToParse(j) /\ StrategyOf(PathOf(j)) = "yaml"
         /\ results[i].processed /\ results[j].processed
         /\ results[k].modified
         /\ hist.writes[k] = 1

\* a scoped package name: @scope/name
IsScoped(name) ==
    /\ name # <<>>
    /\ name[1] = "@"
    /\ \E i \in 3..(Len(name) - 1) : name[i] = "/"

\* C14 as stated: tokens that are scoped package names are accepted by the
\* validation of the command line: validateRenameOptions reports the pair as
\* valid and main() does not exit on it
C14_ScopedNamesAccepted ==
    (/\ entry = "cli"
     /\ IsScoped(NameArg(args, "old-name", "oldName"))
     /\ IsScoped(NameArg(args, "new-name", "newName"))) =>
        /\ IsValid(validateRenameOptions(args["old-name"], args["new-name"]))
        /\ pc # "exit"

\* C15 as stated: the size of the gate the file pass runs behind is an
\* integer between 1 and 100, and it is 10 when no concurrency is supplied;
\* a concurrency outside the range of validateConfig never gets to the gate
C15_GateSizeInRange ==
    (pc = "filepass" \/ PastFilePass) =>
        /\ limit >= MinConcurrency /\ limit <= MaxConcurrency
        /\ "concurrency" \notin DOMAIN options => limit = DefaultConcurrency

(***************************************************************************)
(* Termination of the file pass                                            *)
(***************************************************************************)
\* C16: under fair scheduling, and with every read and write returning, a
\* file pass comes to its end: every file has its outcome, no task is left
\* waiting at the gate or in flight, and the summary is made
C16_FilePassCompletes ==
    (pc = "filepass") ~>
        (/\ pc # "filepass"
         /\ summary.set
         /\ AllSettled(results)
         /\ queue = <<>>
         /\ activeCount = 0)

\* the summary of a full list is made behind a gate smaller than the list:
\* some task had to wait for a slot, and some read or write came back with
\* an error
C16_SummaryAfterWaiting ==
    /\ summary.set
    /\ pc # "filepass"
    /\ Len(files) = MaxFiles
    /\ limit < Len(files)
    /\ summary.errors >= 1
    /\ summary.processed >= 1

(***************************************************************************)
(* Files without a token                                                   *)
(***************************************************************************)
\* file i of the list held no old token of the map when the run began
HoldsNoToken(i) == ~Mentions(hist.disk0[files[i]], RenameMapOf(options))

\* the strategy of file i parses its content and emits it in another layout
\* than the one it has: JSON.stringify(data, null, 2) and yaml's stringify
\* write the text anew
Reemitted(i) ==
    \/ /\ StrategyOf(PathOf(i)) = "json"
       /\ Parses(hist.disk0[files[i]], "json")
       /\ hist.disk0[files[i]] # JsonStringify(hist.disk0[files[i]].tree)
    \/ /\ StrategyOf(PathOf(i)) = "yaml"
       /\ Parses(hist.disk0[files[i]], "yaml")
       /\ hist.disk0[files[i]] # YamlStringify(hist.disk0[files[i]].tree)

KeysOf(value) ==
    IF value.t = "obj"
    THEN [j \in DOMAIN value.entries |-> value.entries[j].k]
    ELSE <<>>

\* the keys of the dependency sections of a package.json
DependencyKeys(content) ==
    IF ~Parses(content, "json") THEN <<>>
    ELSE [d \in DOMAIN DepTypes |-> KeysOf(Member(content.tree, DepTypes[d]))]

\* the run has its options, and update-package is off in them
UpdatePackageOff ==
    /\ pc \notin {"main", "run", "exit", "rejected"}
    /\ PackageJsonAt(tree) # 0
    /\ ~IsOn(options, "updatePackage")

StrategyOfExtension(filePath) ==
    IF ExtName(filePath) \in CodeExts THEN "ts"
    ELSE IF ExtName(filePath) \in JsonExts THEN "json"
    ELSE IF ExtName(filePath) \in YamlExts THEN "yaml"
    ELSE IF ExtName(filePath) \in MdExts THEN "md"
    ELSE "none"

\* C19 as stated: a file with a recognised extension (.ts/.tsx/.js/.jsx,
\* .json, .yml/.yaml, .md) is handled by the strategy of that extension, and
\* the checks of the name (env, Dockerfile, docker-compose) decide only for a
\* file without a recognised extension
C19_ExtensionBeforeName ==
    \A i \in DOMAIN files :
        IF StrategyOfExtension(PathOf(i)) # "none"
        THEN StrategyOf(PathOf(i)) = StrategyOfExtension(PathOf(i))
        ELSE StrategyOf(PathOf(i)) \in {"env", "docker", "none"}

(***************************************************************************)
(* The order of the pairs of a batch mapping                               *)
(***************************************************************************)
\* C20 as stated: for a batch mapping that validation accepts, the pairs the
\* strategies go through are the pairs of the mapping in the order they were
\* written in, whatever their keys are
C20_PairsInInsertionOrder ==
    (/\ pc \notin {"main", "run", "exit", "rejected"}
     /\ "multi-map" \in DOMAIN args
     /\ ArgsValid) =>
        RenameMapOf(options) = ParsePairs(args["multi-map"].map, 1, <<>>)

(***************************************************************************)
(* The batch mapping and the single pair                                   *)
(***************************************************************************)
\* the declared name of a package.json, or [t |-> "undefined"]
DeclaredName(content) ==
    IF Parses(content, "json") THEN Member(content.tree, NameKey)
    ELSE [t |-> "undefined"]

\* C21 as stated: with a batch mapping the single pair has no effect, also on
\* the declared name of the manifest: once updatePackageJson has written the
\* manifest, its declared name differs from the name the run began with only
\* where that name holds an old token of the batch mapping
C21_OnlyMappingRenamesManifest ==
    (/\ "multiMap" \in DOMAIN options
     /\ PackageJsonAt(tree) # 0
     /\ hist.manifestWrites = 1) =>
        \/ DeclaredName(disk[PackageJsonAt(tree)])
              = DeclaredName(hist.disk0[PackageJsonAt(tree)])
        \/ /\ DeclaredName(hist.disk0[PackageJsonAt(tree)]).t = "str"
           /\ \E p \in DOMAIN options.multiMap :
                MentionsFrom(DeclaredName(hist.disk0[PackageJsonAt(tree)]).s,
                             options.multiMap[p].old, 1)

(***************************************************************************)
(* The rules of the code strategy                                          *)
(***************************************************************************)
\* an import statement whose path is the token
ImportOf(token) == KwImport \o <<" ","x"," ">> \o KwFrom \o <<" ","'">> \o token \o <<"'">>

\* C22 as stated: in the code strategy text rewritten by the import rule is
\* not rewritten again by a later rule of the same pair: a file that imports
\* from the old token, once rewritten with a single pair, imports from
\* exactly one copy of the new token
C22_ImportPathRenamedOnce ==
    \A i \in DOMAIN results :
        (/\ "multiMap" \notin DOMAIN options
         /\ StrategyOf(PathOf(i)) = "ts"
         /\ hist.read[i].set
         /\ hist.read[i].content = TextOf(ImportOf(options.oldName))
         /\ results[i].set
         /\ results[i].modified
         /\ ~IsOn(options, "dry")) =>
            disk[files[i]] = TextOf(ImportOf(options.newName))

(***************************************************************************)
(* The Env strategy                                                        *)
(***************************************************************************)
\* C23 as stated: the Env strategy rewrites a variable whose name is the old
\* token of a pair to the upper-cased new token, whatever the casing of the
\* tokens and the options: an env file that began with <old>= and was
\* rewritten begins with <NEW>=
C23_EnvNameUpperCased ==
    \A i \in DOMAIN results :
        \A p \in DOMAIN RenameMapOf(options) :
            (/\ StrategyOf(PathOf(i)) = "env"
             /\ hist.read[i].set
             /\ hist.read[i].content.kind = "text"
             /\ StartsWith(hist.read[i].content.chars,
                           RenameMapOf(options)[p].old \o <<"=">>)
             /\ results[i].set
             /\ results[i].modified
             /\ ~IsOn(options, "dry")) =>
                StartsWith(disk[files[i]].chars,
                           ToUpperCase(RenameMapOf(options)[p].new) \o <<"=">>)

\* C23 as the code has it: when matching ignores case (caseSensitive is not
\* set), the Env strategy rewrites a variable whose name is the old token of
\* a pair, in any casing of the tokens, to the upper-cased new token: an env
\* file that began with <old>= and was rewritten begins with <NEW>=
C23_EnvNameUpperCasedIgnoringCase ==
    IgnoreCase(options) =>
        \A i \in DOMAIN results :
            \A p \in DOMAIN RenameMapOf(options) :
                (/\ StrategyOf(PathOf(i)) = "env"
                 /\ hist.read[i].set
                 /\ hist.read[i].content.kind = "text"
                 /\ StartsWith(hist.read[i].content.chars,
                               RenameMapOf(options)[p].old \o <<"=">>)
                 /\ results[i].set
                 /\ results[i].modified
                 /\ ~IsOn(options, "dry")) =>
                    StartsWith(disk[files[i]].chars,
                               ToUpperCase(RenameMapOf(options)[p].new) \o <<"=">>)

\* a run whose matching ignores case has rewritten an env file whose variable
\* is the lower-case old token: the file begins with the upper-cased new
\* token, which is not the new token as it was given
C23_LowerCaseVariableRewritten ==
    /\ IgnoreCase(options)
    /\ ~IsOn(options, "dry")
    /\ \E i \in DOMAIN results :
         /\ StrategyOf(PathOf(i)) = "env"
         /\ hist.read[i].set
         /\ hist.read[i].content = TextOf(TokOld \o <<"=">> \o TokOld)
         /\ options.oldName = TokOld
         /\ options.newName = TokNew
         /\ results[i].set
         /\ results[i].modified
         /\ StartsWith(disk[files[i]].chars, ToUpperCase(TokNew) \o <<"=">>)
         /\ ToUpperCase(TokNew) # TokNew

(***************************************************************************)
(* The Docker strategy                                                     *)
(***************************************************************************)
\* a FROM line: the directive, the whitespace after it, and the image path
\* <token>/i
FromLine(space, token) == KwFROM \o space \o token \o <<"/","i">>

\* C24 as stated: the Docker strategy edits in place: a FROM line whose image
\* path holds the old token, once rewritten with a single pair, is the same
\* line with the new token in place of the old one: the directive, the
\* whitespace after it and the rest of the path are as they were
C24_DockerEditsInPlace ==
    \A i \in DOMAIN results :
        \A space \in { <<" ">>, <<" "," ">> } :
            (/\ "multiMap" \notin DOMAIN options
             /\ StrategyOf(PathOf(i)) = "docker"
             /\ hist.read[i].set
             /\ hist.read[i].content = TextOf(FromLine(space, options.oldName))
             /\ results[i].set
             /\ results[i].modified
             /\ ~IsOn(options, "dry")) =>
                disk[files[i]] = TextOf(FromLine(space, options.newName))

(***************************************************************************)
(* The JSON and YAML strategies: nesting                                   *)
(***************************************************************************)
RECURSIVE DepthOf(_)
\* the nesting depth of a parsed value: the keys and the members of the root
\* object are at depth 1
DepthOf(value) ==
    LET Deepest(S) == IF S = {} THEN 0 ELSE CHOOSE m \in S : \A n \in S : n <= m
    IN  CASE value.t = "arr" ->
               1 + Deepest({ DepthOf(value.items[j]) : j \in DOMAIN value.items })
          [] value.t = "obj" ->
               1 + Deepest({ DepthOf(value.entries[j].v) :
                                j \in DOMAIN value.entries })
          [] OTHER -> 0

RECURSIVE LeavesAt(_, _)
\* what a parsed value holds at depth d: the keys ("key"), the strings
\* ("str") and the numbers, booleans and nulls
LeavesAt(value, d) ==
    CASE value.t = "arr" ->
           IF d = 0 THEN {}
           ELSE UNION { LeavesAt(value.items[j], d - 1) :
                           j \in DOMAIN value.items }
      [] value.t = "obj" ->
           IF d = 0 THEN {}
           ELSE UNION { (IF d = 1
                         THEN { [t |-> "key", s |-> value.entries[j].k] }
                         ELSE {})
                        \cup LeavesAt(value.entries[j].v, d - 1) :
                           j \in DOMAIN value.entries }
      [] OTHER -> IF d = 0 THEN { value } ELSE {}

\* the keys and strings among the leaves
Texts(leaves) == { x \in leaves : x.t \in {"key", "str"} }

\* file i goes through the JSON or the YAML strategy, its content parses,
\* and one pair of distinct tokens is renamed
ParsedWithOnePair(i) ==
    /\ StrategyOf(PathOf(i)) \in {"json", "yaml"}
    /\ hist.read[i].set
    /\ Parses(hist.read[i].content, StrategyOf(PathOf(i)))
    /\ "multiMap" \notin DOMAIN options
    /\ options.oldName # options.newName

\* C25: the JSON and YAML strategies rename the old token in every key and
\* every string at every nesting depth, through objects and arrays alike, and
\* leave numbers, booleans and null as they are: at every depth d, a key or
\* string that holds the old token has become a key or string of depth d that
\* holds the new token, and the other values of depth d are the same; a file
\* that is returned as it was holds the token at no depth
C25_RenamedAtEveryDepth ==
    \A i \in DOMAIN task :
        ParsedWithOnePair(i) =>
            LET before == hist.read[i].content.tree
                old == options.oldName
                new == options.newName
            IN  /\ task[i].st = "writing" =>
                     /\ Parses(task[i].newContent, StrategyOf(PathOf(i)))
                     /\ \A d \in 0..DepthOf(before) :
                          LET was == LeavesAt(before, d)
                              is == LeavesAt(task[i].newContent.tree, d)
                          IN  /\ \A x \in Texts(was) :
                                   Includes(x.s, old) =>
                                       \E y \in Texts(is) :
                                           /\ y.t = x.t
                                           /\ y # x
                                           /\ Includes(y.s, new)
                                           /\ Len(y.s) - Len(x.s)
                                                = Len(new) - Len(old)
                              /\ was \ Texts(was) = is \ Texts(is)
                /\ (results[i].set /\ results[i].processed
                        /\ ~results[i].modified) =>
                     \A d \in 0..DepthOf(before) :
                         \A x \in Texts(LeavesAt(before, d)) :
                             ~Includes(x.s, old)

\* a YAML file whose token sits in a key of depth 1, in a string of an array
\* at depth 2, in a key of depth 3 and in a string of depth 4, beside a
\* number, a boolean and a null, is about to be written with its new content
C25_TokenAtFourDepths ==
    \E i \in DOMAIN task :
        /\ ParsedWithOnePair(i)
        /\ StrategyOf(PathOf(i)) = "yaml"
        /\ task[i].st = "writing"
        /\ DepthOf(hist.read[i].content.tree) = 4
        /\ \A d \in 1..4 :
             \E x \in Texts(LeavesAt(hist.read[i].content.tree, d)) :
                 Includes(x.s, options.oldName)
        /\ \E d \in 1..4 :
             Null \in LeavesAt(task[i].newContent.tree, d)

(***************************************************************************)
(* The dependency sections the manifest updater writes                     *)
(***************************************************************************)
\* updatePackageJson has written the manifest in this run, with one pair of
\* distinct tokens, and the file pass had left the manifest as it was: it
\* was not in the list, or its task failed
UpdaterWroteManifest ==
    /\ PackageJsonAt(tree) # 0
    /\ pc \in {"remote", "return", "done"}
    /\ hist.manifestWrites = 1
    /\ "multiMap" \notin DOMAIN options
    /\ options.oldName # options.newName
    /\ \A i \in DOMAIN files :
         files[i] = PackageJsonAt(tree) =>
             i \in DOMAIN results /\ results[i].set /\ results[i].error # "null"

\* section d of the manifest as the run found it / as the updater left it
SectionBefore(d) == Member(hist.disk0[PackageJsonAt(tree)].tree, DepTypes[d])

SectionAfter(d) == Member(disk[PackageJsonAt(tree)].tree, DepTypes[d])

\* C26 as stated: in every dependency section the updater renames the first
\* key that holds the old token and no other: the old key is gone, an entry
\* with the value of the old key has come under a key the section did not
\* hold, and every other entry of the section is as it was
C26_OneKeyRenamedOthersKept ==
    UpdaterWroteManifest =>
        \A d \in DOMAIN DepTypes :
            SectionBefore(d).t = "obj" =>
                LET was == SectionBefore(d).entries
                    is == SectionAfter(d).entries
                    at == FindDepKey(was, options.oldName)
                IN  IF at = 0 THEN is = was
                    ELSE /\ \A j \in DOMAIN is : is[j].k # was[at].k
                         /\ \E j \in DOMAIN is :
                              /\ is[j].v = was[at].v
                              /\ \A h \in DOMAIN was : was[h].k # is[j].k
                         /\ \A h \in DOMAIN was \ {at} :
                              \E j \in DOMAIN is : is[j] = was[h]

(***************************************************************************)
(* Writes in progress                                                      *)
(***************************************************************************)
\* fs.writeFile of file task i has been issued and has not settled
WriteInProgress(i) == i \in DOMAIN task /\ task[i].st = "writing"

\* C27: no two writes are in progress on the same path: the file tasks that
\* are writing at the same time write distinct paths, and while
\* updatePackageJson runs no file task is writing, nor yet to write
C27_NoTwoWritesOnOnePath ==
    /\ \A i, j \in DOMAIN task :
         (i # j /\ WriteInProgress(i) /\ WriteInProgress(j)) =>
             PathOf(i) # PathOf(j)
    /\ pc = "manifest" =>
         /\ queue = <<>>
         /\ \A i \in DOMAIN task : task[i].st = "done"

\* in a run that will update the manifest, the write of package.json by its
\* file task is in progress together with the write of another file
C27_TwoWritesInProgress ==
    /\ pc = "filepass"
    /\ IsOn(options, "updatePackage")
    /\ ~IsOn(options, "dry")
    /\ \E i, j \in DOMAIN task :
         /\ i # j
         /\ WriteInProgress(i)
         /\ WriteInProgress(j)
         /\ files[i] = PackageJsonAt(tree)

(***************************************************************************)
(* The JSON and YAML strategies: the entries of an object                  *)
(***************************************************************************)
RECURSIVE SameEntryCounts(_, _)
\* every object of value b has as many entries as the object of value a in
\* the same place
SameEntryCounts(a, b) ==
    CASE a.t = "arr" ->
           /\ b.t = "arr"
           /\ Len(b.items) = Len(a.items)
           /\ \A j \in DOMAIN a.items : SameEntryCounts(a.items[j], b.items[j])
      [] a.t = "obj" ->
           /\ b.t = "obj"
           /\ Len(b.entries) = Len(a.entries)
           /\ \A j \in DOMAIN a.entries :
                SameEntryCounts(a.entries[j].v, b.entries[j].v)
      [] OTHER -> b.t = a.t

\* C28 as stated: the content the JSON or the YAML strategy puts out for a
\* file that parses has, in every object, as many entries as the content it
\* was given: no entry is merged into another or dropped, also when a
\* renamed key is equal to another key of the object
C28_EntryCountsKept ==
    \A i \in DOMAIN task :
        (/\ StrategyOf(PathOf(i)) \in {"json", "yaml"}
         /\ task[i].st = "writing"
         /\ Parses(hist.read[i].content, StrategyOf(PathOf(i)))) =>
            /\ Parses(task[i].newContent, StrategyOf(PathOf(i)))
            /\ SameEntryCounts(hist.read[i].content.tree,
                               task[i].newContent.tree)

(***************************************************************************)
(* Tokens as patterns                                                      *)
(***************************************************************************)
\* C29 as stated: tokens that pass validateRenameOptions are matched
\* character for character: a file that is read is modified only when its
\* content holds an old token of the map (up to letter case), and the
\* rewrite of a file never fails, whatever characters the tokens hold
C29_ValidTokensMatchedLiterally ==
    ~TokensInvalid =>
        \A i \in DOMAIN results :
            (results[i].set /\ hist.read[i].set) =>
                /\ results[i].error # "rewrite"
                /\ (results[i].modified
                       /\ hist.read[i].content.kind = "text") =>
                      Mentions(hist.read[i].content, RenameMapOf(options))

(***************************************************************************)
(* A preview and the run it is a preview of                                *)
(***************************************************************************)
\* the options without the dry flag
ButDry(o) == [k \in DOMAIN o \ {"dry"} |-> o[k]]

\* this run is no preview and has its summary; the run before it was a
\* preview with the same options over the same tree, and no read or write
\* failed in either
AppliedAfterPreview ==
    /\ run >= 2
    /\ prev.set
    /\ summary.set
    /\ IsOn(prev.options, "dry")
    /\ ~IsOn(options, "dry")
    /\ ButDry(options) = ButDry(prev.options)
    /\ hist.disk0 = prev.hist.disk0
    /\ \A i \in DOMAIN prev.hist.read : prev.hist.read[i].set
    /\ \A i \in DOMAIN results :
         results[i].set /\ results[i].error \notin {"read", "write"}

\* C30: for the same tree and the same options, with no failed read or
\* write, the preview reports the processed, modified and error counts that
\* the run without the dry flag reports
C30_PreviewReportsSameCounts ==
    AppliedAfterPreview =>
        /\ summary.processed = prev.summary.processed
        /\ summary.modified = prev.summary.modified
        /\ summary.errors = prev.summary.errors

\* a preview that reported modified files was followed by the run without
\* the dry flag, which has written those files
C30_PreviewThenWritten ==
    /\ AppliedAfterPreview
    /\ prev.summary.modified >= 2
    /\ disk # hist.disk0
    /\ \E i \in DOMAIN files : hist.writes[i] = 1 /\ results[i].modified

=============================================================================
